---- MODULE Spec2Model ----
(***************************************************************************)
(* Model of the HTTP request pipeline of the Bitbucket Server MCP server:  *)
(* credential resolution and Authorization injection, the transport, the   *)
(* error normalisation of the interceptors, the project service built on   *)
(* the generated API client, and the consumers of the paging envelope.     *)
(*                                                                         *)
(* Strings that the code concatenates or encodes are sequences: a          *)
(* credential is a sequence of character codes, an error message is a      *)
(* sequence of text fragments in the order of the template that builds it. *)
(***************************************************************************)
EXTENDS Integers, Sequences, FiniteSets, TLC

\* ------------------------------------------------------------------ bounds
\* number of requests issued one after the other in a behaviour
MaxRequests == 2

\* ------------------------------------------------------- configuration store
URL_KEY == "ATLASSIAN_BITBUCKET_SERVER_URL"
TOKEN_KEY == "ATLASSIAN_BITBUCKET_ACCESS_TOKEN"
USER_KEY == "ATLASSIAN_BITBUCKET_USERNAME"
PASS_KEY == "ATLASSIAN_BITBUCKET_PASSWORD"

ConfigKeys == {URL_KEY, TOKEN_KEY, USER_KEY, PASS_KEY}

\* character codes of the sample values; <<>> is the empty string
ValuesOf(key) ==
    CASE key = URL_KEY   -> {<<104>>}                        \* "h"
      [] key = TOKEN_KEY -> {<<>>, <<116, 107>>}             \* "", "tk"
      [] key = USER_KEY  -> {<<117>>, <<97, 98>>}            \* "u", "ab"
      [] key = PASS_KEY  -> {<<>>, <<112>>, <<112, 119>>}    \* "", "p", "pw"

\* process.env: the keys that are set, each with its string value
EnvOk(e) == \A k \in DOMAIN e : e[k] \in ValuesOf(k)

EnvStates ==
    UNION {{e \in [ks -> UNION {ValuesOf(k) : k \in ConfigKeys}] : EnvOk(e)} :
           ks \in SUBSET ConfigKeys}

\* the JavaScript value undefined where a string is expected; config.get
\* never returns "" (it returns the default instead), so <<>> is free for it
Undefined == <<>>

\* config.get(key): process.env[key] || defaultValue, defaultValue undefined
ConfigGet(e, key) ==
    IF key \in DOMAIN e /\ e[key] # <<>> THEN e[key] ELSE Undefined

Truthy(s) == s # <<>>

\* -------------------------------------------------------------------- base64
Colon == 58
PadSym == 64

\* Buffer.from(str).toString('base64') on ASCII text: 3 bytes -> 4 symbols,
\* symbols are indices into the base64 alphabet, PadSym is '='
RECURSIVE Base64(_)
Base64(b) ==
    IF Len(b) = 0 THEN <<>>
    ELSE IF Len(b) = 1 THEN <<b[1] \div 4, (b[1] % 4) * 16, PadSym, PadSym>>
    ELSE IF Len(b) = 2 THEN
        <<b[1] \div 4, (b[1] % 4) * 16 + (b[2] \div 16), (b[2] % 16) * 4, PadSym>>
    ELSE <<b[1] \div 4, (b[1] % 4) * 16 + (b[2] \div 16),
           (b[2] % 16) * 4 + (b[3] \div 64), b[3] % 64>>
         \o Base64(SubSeq(b, 4, Len(b)))

\* ----------------------------------------------------- Authorization header
NoAuth == [scheme |-> "none", cred |-> <<>>]
Bearer(token) == [scheme |-> "Bearer", cred |-> token]
Basic(encoded) == [scheme |-> "Basic", cred |-> encoded]

\* addAuthHeader: bearer first, then basic, else only a warning is logged;
\* hdr is the Authorization header the request already carries
addAuthHeaderBasicFirst(e, hdr) ==
    LET token == ConfigGet(e, TOKEN_KEY)
        username == ConfigGet(e, USER_KEY)
        password == ConfigGet(e, PASS_KEY)
    IN IF Truthy(username) /\ Truthy(password)
       THEN Basic(Base64(username \o <<Colon>> \o password))
       ELSE IF Truthy(token) THEN Bearer(token) ELSE hdr
addAuthHeaderPartial(e, hdr) ==
    LET token == ConfigGet(e, TOKEN_KEY)
        username == ConfigGet(e, USER_KEY)
        password == ConfigGet(e, PASS_KEY)
    IN IF Truthy(token) THEN Bearer(token)
       ELSE IF Truthy(username) \/ Truthy(password)
            THEN Basic(Base64(username \o <<Colon>> \o password))
            ELSE hdr
addAuthHeaderUserOnly(e, hdr) ==
    LET token == ConfigGet(e, TOKEN_KEY)
        username == ConfigGet(e, USER_KEY)
        password == ConfigGet(e, PASS_KEY)
    IN IF Truthy(token) THEN Bearer(token)
       ELSE IF Truthy(username)
            THEN Basic(Base64(username \o <<Colon>> \o password))
            ELSE hdr
addAuthHeader(e, hdr) ==
    LET token == ConfigGet(e, TOKEN_KEY)
        username == ConfigGet(e, USER_KEY)
        password == ConfigGet(e, PASS_KEY)
    IN IF Truthy(token) THEN Bearer(token)
       ELSE IF Truthy(username) /\ Truthy(password)
            THEN Basic(Base64(username \o <<Colon>> \o password))
            ELSE hdr

\* BitbucketClient.addAuthInterceptor: the same resolution, with optional
\* per-request overrides requestConfig.bitbucket.{username,password}
clientAuthInterceptor(e, hdr, ovUser, ovPass) ==
    LET token == ConfigGet(e, TOKEN_KEY)
        username == IF Truthy(ovUser) THEN ovUser ELSE ConfigGet(e, USER_KEY)
        password == IF Truthy(ovPass) THEN ovPass ELSE ConfigGet(e, PASS_KEY)
    IN IF Truthy(token) THEN Bearer(token)
       ELSE IF Truthy(username) /\ Truthy(password)
            THEN Basic(Base64(username \o <<Colon>> \o password))
            ELSE hdr

\* createBitbucketApiConfig.authMiddleware.pre: bearer token only
authMiddleware(e, hdr) ==
    LET token == IF TOKEN_KEY \in DOMAIN e /\ Truthy(e[TOKEN_KEY])
                 THEN e[TOKEN_KEY] ELSE ConfigGet(e, TOKEN_KEY)
    IN IF Truthy(token) THEN Bearer(token) ELSE hdr

\* getTestCredentials: reads process.env directly; the password of the pair is
\* ATLASSIAN_BITBUCKET_APP_PASSWORD here.  The result is null or an object
\* with the members that were assigned.
APP_PASS_KEY == "ATLASSIAN_BITBUCKET_APP_PASSWORD"
Null == [k \in {"null"} |-> <<>>]
EnvGet(e, key) == IF key \in DOMAIN e THEN e[key] ELSE Undefined
getTestCredentials(e) ==
    LET serverUrl == EnvGet(e, URL_KEY)
        username == EnvGet(e, USER_KEY)
        appPassword == EnvGet(e, APP_PASS_KEY)
        accessToken == EnvGet(e, TOKEN_KEY)
        credentials == [k \in {"bitbucketServerUrl"} |-> serverUrl]
    IN IF ~Truthy(serverUrl) THEN Null
       ELSE IF Truthy(accessToken)
            THEN [k \in {"bitbucketServerUrl", "bitbucketAccessToken"} |->
                     IF k = "bitbucketAccessToken" THEN accessToken
                     ELSE credentials[k]]
       ELSE IF Truthy(username) /\ Truthy(appPassword)
            THEN [k \in {"bitbucketServerUrl", "bitbucketUsername",
                         "bitbucketAppPassword"} |->
                     CASE k = "bitbucketUsername" -> username
                       [] k = "bitbucketAppPassword" -> appPassword
                       [] OTHER -> credentials[k]]
       ELSE Null

\* ------------------------------------------------------------ response body
\* A response body as the server sent it.  fmt "json": an object with the
\* optional members errors[0].message, message and error ("" = member absent
\* or empty, both falsy in the code); fmt "text": text that is not a JSON
\* object; fmt "none": empty body.
\* a server message that contains double quotes
QuotedText == "Project \"X\" does not exist"

\* JSON string escaping of the sample texts: a double quote becomes \"
JsonEscape(text) ==
    IF text = QuotedText THEN "Project \\\"X\\\" does not exist" ELSE text

NoErrorMember == [kind |-> "absent", text |-> ""]
NoBody == [fmt |-> "none", errors0 |-> "", message |-> "", error |-> NoErrorMember]

ErrorMembers ==
    {NoErrorMember, [kind |-> "string", text |-> "Not Found"],
     [kind |-> "object", text |-> "inner failure"]}

Bodies ==
    {NoBody, [NoBody EXCEPT !.fmt = "text"]}
    \cup {[fmt |-> "json", errors0 |-> d, message |-> m, error |-> x] :
            d \in {"", "Project not found", QuotedText},
            m \in {"", "No such project"},
            x \in ErrorMembers}

Str(f) == IF f = "" THEN <<>> ELSE <<f>>

\* the body as text, response.clone().text(): the members in document order
BodyText(b) ==
    CASE b.fmt = "none" -> <<>>
      [] b.fmt = "text" -> <<"<html>Not Found</html>">>
      [] OTHER ->
            <<"{">>
            \o (IF b.errors0 = "" THEN <<>>
                ELSE <<"\"errors\":[{\"message\":", JsonEscape(b.errors0), "}]">>)
            \o (IF b.message = "" THEN <<>>
                ELSE <<"\"message\":", JsonEscape(b.message)>>)
            \o (IF b.error.kind = "absent" THEN <<>>
                ELSE IF b.error.kind = "string"
                     THEN <<"\"error\":", JsonEscape(b.error.text)>>
                ELSE <<"\"error\":{\"message\":", JsonEscape(b.error.text), "}">>)
            \o <<"}">>

\* response.data of axios, member access with optional chaining
DataErrors0Message(b) == IF b.fmt = "json" THEN b.errors0 ELSE ""
DataMessage(b) == IF b.fmt = "json" THEN b.message ELSE ""
DataErrorMessage(b) ==
    IF b.fmt = "json" /\ b.error.kind = "object" THEN b.error.text ELSE ""

\* -------------------------------------------------------------------- errors
\* ErrorType
AUTH_ERROR == "AUTH_ERROR"
AUTH_MISSING == "AUTH_MISSING"
AUTH_INVALID == "AUTH_INVALID"
FORBIDDEN == "FORBIDDEN"
NOT_FOUND == "NOT_FOUND"
API_ERROR == "API_ERROR"
CONFIG_ERROR == "CONFIG_ERROR"
VALIDATION_ERROR == "VALIDATION_ERROR"
REQUEST_ERROR == "REQUEST_ERROR"
UNEXPECTED_ERROR == "UNEXPECTED_ERROR"

\* status of a response; NoStatus is a response object without a status
NoStatus == 0
ErrorStatuses == {NoStatus, 400, 401, 403, 404, 500}

\* One shape for every thrown value.  cls: the class of the value; type and
\* statusCode: the McpError fields (status of an ApiClientError); message: the
\* fragments of .message; cause: class of originalError, "none" without one;
\* hasResponse/body: error.response of an AxiosError, body of an
\* ApiClientError.
NoError ==
    [cls |-> "none", type |-> "", statusCode |-> 0, message |-> <<>>,
     cause |-> "none", hasResponse |-> FALSE, body |-> NoBody]

McpError(message, type, statusCode, cause) ==
    [cls |-> "McpError", type |-> type, statusCode |-> statusCode,
     message |-> message, cause |-> cause, hasResponse |-> FALSE, body |-> NoBody]

PlainError(message) ==
    [NoError EXCEPT !.cls = "Error", !.message = message]

\* an AxiosError: with a response (status, data) or without one
AxiosError(msg, hasResponse, status, body) ==
    [cls |-> "AxiosError", type |-> "", statusCode |-> status,
     message |-> Str(msg), cause |-> "none", hasResponse |-> hasResponse,
     body |-> body]

StatusLine(status) ==
    CASE status = 400 -> "400 Bad Request"
      [] status = 401 -> "401 Unauthorized"
      [] status = 403 -> "403 Forbidden"
      [] status = 404 -> "404 Not Found"
      [] status = 500 -> "500 Internal Server Error"
      [] OTHER -> "0"

\* new ApiClientError(`[${status} ${statusText}] ${method} ${url}`, status,
\* statusText, errorBodyText)
ApiClientError(status, method, url, body) ==
    [cls |-> "ApiClientError", type |-> "", statusCode |-> status,
     message |-> <<"[", StatusLine(status), "] ", method, " ", url>>,
     cause |-> "none", hasResponse |-> TRUE, body |-> body]

createAuthMissingError == McpError(<<"Authentication credentials are missing">>, AUTH_MISSING, 401, "none")
createNotFoundError(message) == McpError(message, NOT_FOUND, 404, "none")
createApiError(message, statusCode, originalError) ==
    McpError(message, API_ERROR,
             IF statusCode = NoStatus THEN 500 ELSE statusCode, originalError.cls)
createUnexpectedError(error) ==
    McpError(error.message, UNEXPECTED_ERROR, 500, error.cls)
createConfigError(message) == McpError(message, CONFIG_ERROR, 500, "none")

\* ------------------------------------------------------- error normalisation
NetworkErrorLiteral == "Network error occurred"

\* first truthy of a || b || c
FirstTruthy(a, b, c) == IF a # "" THEN a ELSE IF b # "" THEN b ELSE c

MessageText(e) == IF e.message = <<>> THEN "" ELSE e.message[1]

handleErrorResponseNoDefault(error) ==
    IF error.hasResponse
    THEN LET status == error.statusCode
             message == Str(FirstTruthy(DataErrors0Message(error.body),
                                        DataMessage(error.body),
                                        MessageText(error)))
         IN CASE status = 401 -> McpError(message, AUTH_INVALID, 401, error.cls)
              [] status = 403 -> McpError(message, FORBIDDEN, 403, error.cls)
              [] status = 404 -> McpError(message, NOT_FOUND, 404, error.cls)
              [] OTHER -> McpError(message, API_ERROR, status, error.cls)
    ELSE McpError(Str(FirstTruthy(MessageText(error), NetworkErrorLiteral, "")),
                  REQUEST_ERROR, 500, error.cls)

\* handleErrorResponse (interceptors/error.interceptor.ts)
handleErrorResponse(error) ==
    IF error.hasResponse
    THEN LET status == error.statusCode
             message == Str(FirstTruthy(DataErrors0Message(error.body),
                                        DataMessage(error.body),
                                        MessageText(error)))
         IN CASE status = 401 -> McpError(message, AUTH_INVALID, 401, error.cls)
              [] status = 403 -> McpError(message, FORBIDDEN, 403, error.cls)
              [] status = 404 -> McpError(message, NOT_FOUND, 404, error.cls)
              [] OTHER -> McpError(message, API_ERROR,
                                   IF status = NoStatus THEN 500 ELSE status,
                                   error.cls)
    ELSE McpError(Str(FirstTruthy(MessageText(error), NetworkErrorLiteral, "")),
                  REQUEST_ERROR, 500, error.cls)

\* the rejected handler of BitbucketClient.addErrorInterceptor
clientErrorInterceptor(error) ==
    IF error.hasResponse
    THEN LET status == error.statusCode
             message == Str(FirstTruthy(DataErrorMessage(error.body),
                                        MessageText(error), ""))
         IN CASE status = 401 -> McpError(message, AUTH_INVALID, 401, error.cls)
              [] status = 403 -> McpError(message, FORBIDDEN, 403, error.cls)
              [] status = 404 -> McpError(message, NOT_FOUND, 404, error.cls)
              [] OTHER -> McpError(message, API_ERROR,
                                   IF status = NoStatus THEN 500 ELSE status,
                                   error.cls)
    ELSE McpError(<<NetworkErrorLiteral>>, REQUEST_ERROR, 500, error.cls)

\* ErrorInterceptor.onError; error.response?.status is undefined without a
\* response
ErrorInterceptorOnError(error) ==
    IF error.cls = "AxiosError"
    THEN LET status == IF error.hasResponse THEN error.statusCode ELSE NoStatus
             message == Str(FirstTruthy(
                                IF error.hasResponse
                                THEN DataErrorMessage(error.body) ELSE "",
                                MessageText(error), ""))
         IN CASE status = 401 -> McpError(message, AUTH_ERROR, 401, error.cls)
              [] status = 403 -> McpError(message, FORBIDDEN, 403, error.cls)
              [] status = 404 -> McpError(message, NOT_FOUND, 404, error.cls)
              [] OTHER -> McpError(message, API_ERROR,
                                   IF status = NoStatus THEN 500 ELSE status,
                                   error.cls)
    ELSE IF error.cls \in {"Error", "McpError", "ApiClientError"}
         THEN McpError(error.message, UNEXPECTED_ERROR, 500, error.cls)
         ELSE McpError(<<"An unexpected error occurred">>, UNEXPECTED_ERROR, 500,
                       "none")

\* createBitbucketApiConfig.errorHandlingMiddleware.post: a response that is
\* not ok becomes an ApiClientError carrying status and body text
errorHandlingMiddleware(status, method, url, body) ==
    ApiClientError(status, method, url, body)

\* ------------------------------------------------------------ project service
\* detail of the catch block of getProject / listProjects:
\* parsedBody.message || parsedBody.error || error.body, String(error.body)
\* when the body does not parse, '' when there is no body
ErrorDetail(error) ==
    LET b == error.body
    IN CASE b.fmt = "none" -> <<>>
         [] b.fmt = "text" -> BodyText(b)
         [] OTHER ->
              IF b.message # "" THEN <<b.message>>
              ELSE IF b.error.kind = "string" /\ b.error.text # "" THEN <<b.error.text>>
              ELSE IF b.error.kind = "object" THEN <<"[object Object]">>
              ELSE BodyText(b)

\* catch block of AtlassianProjectsService.getProject
\* (services/atlassianProjectsService, the version converting ApiClientError)
getProjectCatch(projectKey, error) ==
    IF error.cls = "ApiClientError"
    THEN LET detail == ErrorDetail(error)
         IN IF error.statusCode = 404
            THEN createNotFoundError(
                     <<"Project '", projectKey, "' not found. ">> \o detail)
            ELSE createApiError(
                     <<"Failed to get project '", projectKey, "': ">>
                     \o error.message \o <<". ">> \o detail,
                     error.statusCode, error)
    ELSE createUnexpectedError(error)

\* ------------------------------------------------------------------- state
VARIABLES
    env,        \* process.env restricted to the configuration keys
    instance,   \* BitbucketClient.instance exists
    pc,         \* position of the current request in the pipeline
    req,        \* the current request: pipeline, service version, project key
    hdr,        \* Authorization header of the outbound request
    netCalls,   \* transport invocations of the current request
    stages,     \* pipeline stages run for the current request, in order
    raw,        \* what the transport produced: response or raw error
    err,        \* the error after normalisation
    result,     \* what the caller of the service receives
    served,     \* requests completed so far
    pgPc,       \* position of the current list call
    call,       \* the current list call: caller, operation, project, params
    apiRequest, \* the request object handed to the generated API method
    svcResult,  \* what the service method returned to its caller
    pgEnvelope, \* the paging envelope the API method resolved with
    cliView,    \* pagination reported by the controller, with its envelope
    toolView,   \* pagination reported by the tool handler, with its envelope
    listed,     \* list calls completed so far
    lpc,        \* position of the current invocation of a tool handler or CLI command
    inv,        \* the invocation: calling layer, operation and arguments
    out,        \* what the handler returned, or the command printed and its exit
    calls,      \* invocations made so far
    journal,    \* an execution kept by a caller that compares two executions
    par,        \* the requests that are in progress at the same time, by slot
    ref,        \* the slot whose request is being repeated alone, or 0
    configLoaded, \* ConfigLoader.configLoaded
    files,      \* the configuration files: .env, .env.test, the global config file
    reads,      \* configuration sources read so far
    loads,      \* calls of load() so far
    fc,         \* the current call of getFileContent: arguments, request, response, content
    sr          \* a request on its way through the request stages, with the records logged

pipeVars == <<env, instance, pc, req, hdr, netCalls, stages, raw, err, result, served>>
pageVars == <<pgPc, call, apiRequest, svcResult, pgEnvelope, cliView, toolView, listed>>
callVars == <<lpc, inv, out, calls>>
parVars == <<par, ref>>
loaderVars == <<files, reads, loads>>
moreVars == <<parVars, loaderVars, configLoaded, fc, sr>>
vars == <<pipeVars, pageVars, callVars, journal, moreVars>>

\* The pipelines of the repository:
\*  "client"   BitbucketClient with its inline interceptors (axios)
\*  "handlers" addAuthHeader, logRequest/logResponse, handleErrorResponse
\*  "class"    addAuthHeader, LoggingInterceptor, ErrorInterceptor.onError
\*  "api"      createBitbucketApiConfig middleware around the generated client
Impls == {"client", "handlers", "class", "api"}

\* the service method on top: "direct" has no catch block (getProject over
\* BitbucketClient, AtlassianRepositoriesService.getRepository over the
\* generated client), "convert" is AtlassianProjectsService.getProject over
\* the generated client, which converts what it catches
ServicesOf(impl) == IF impl = "api" THEN {"convert", "direct"} ELSE {"direct"}

ProjectKeys == {"PROJ", "TESTPROJ"}

NoRequest == [impl |-> "none", svc |-> "none", projectKey |-> ""]

\* a response: ok TRUE with a 2xx status, or ok FALSE with status and body
NoRaw == [kind |-> "none", status |-> 0, error |-> NoError]
OkResponse == [kind |-> "response", status |-> 200, error |-> NoError]

TransportMessages == {"", "connect ECONNREFUSED"}
StatusMessage == "Request failed with status code"

RequestUrl(r) ==
    IF r.impl = "api" /\ r.svc = "direct"
    THEN "/rest/api/latest/projects/" \o r.projectKey \o "/repos/repo"
    ELSE "/rest/api/latest/projects/" \o r.projectKey

\* --------------------------------------------------------- paging envelope
\* A JSON object is a function from the members that are present to their
\* values.  The paging envelope has the members size, limit, isLastPage,
\* values, start, nextPageStart, each optional in the generated type.
EmptyObject == [k \in {} |-> 0]

Envelope(present, last, vals) ==
    [k \in present |->
        CASE k = "size" -> Len(vals)
          [] k = "limit" -> 25
          [] k = "isLastPage" -> last
          [] k = "values" -> vals
          [] k = "start" -> 0
          [] OTHER -> 25]

ItemLists == {<<>>, <<"REPO1", "REPO2">>}

Envelopes ==
    {Envelope(present \cup {"limit", "start"}, last, vals) :
        present \in SUBSET {"size", "isLastPage", "values", "nextPageStart"},
        last \in BOOLEAN, vals \in ItemLists}

\* params of a list call: the members that the caller defined
ParamValue(k) == CASE k = "limit" -> 10 [] k = "start" -> 20 [] OTHER -> "core"
ParamMembers(op) ==
    IF op = "listProjects" THEN {"name", "limit", "start"} ELSE {"limit", "start"}
ParamsOf(op) == {[k \in ks |-> ParamValue(k)] : ks \in SUBSET ParamMembers(op)}

ListOps == {"listProjects", "listRepositories"}
Callers == {"controller", "tool"}

\* AtlassianProjectsService.listProjects: this.projectApi.getProjects(params)
listProjectsRequest(params) == params

\* AtlassianRepositoriesService.listRepositories: the request object
\* { projectkey, limit: params.limit, start: params.start }; a member whose
\* value is undefined is a member that is absent
listRepositoriesRequestNoStart(projectKey, params) ==
    [k \in {"projectkey"} \cup (DOMAIN params \cap {"limit"}) |->
        IF k = "projectkey" THEN projectKey ELSE params[k]]
listRepositoriesRequest(projectKey, params) ==
    [k \in {"projectkey"} \cup (DOMAIN params \cap {"limit", "start"}) |->
        IF k = "projectkey" THEN projectKey ELSE params[k]]

\* both list methods end in: return response
listReturn(response) == response

\* result.values?.length, 0 standing for undefined as well (both falsy)
ValuesLength(envelope) ==
    IF "values" \in DOMAIN envelope THEN Len(envelope["values"]) ELSE 0

NoView == [set |-> FALSE, reported |-> FALSE, hasMore |-> FALSE,
           cursor |-> FALSE, next |-> 0, envelope |-> EmptyObject]

\* the list method of the controllers: no pagination at all for an empty page,
\* else formatPagination(count, hasMore, nextCursor) with
\* hasMore = !result.isLastPage, nextCursor = result.nextPageStart?.toString()
ControllerView(envelope) ==
    IF ValuesLength(envelope) = 0
    THEN [NoView EXCEPT !.set = TRUE, !.envelope = envelope]
    ELSE [set |-> TRUE, reported |-> TRUE,
          hasMore |-> ~("isLastPage" \in DOMAIN envelope /\ envelope["isLastPage"]),
          cursor |-> "nextPageStart" \in DOMAIN envelope,
          next |-> IF "nextPageStart" \in DOMAIN envelope
                   THEN envelope["nextPageStart"] ELSE 0,
          envelope |-> envelope]

\* the list tool handlers: paginationInfo is the "More ... available" note
\* when result.isLastPage === false, else ''
ToolView(envelope) ==
    LET more == "isLastPage" \in DOMAIN envelope /\ envelope["isLastPage"] = FALSE
    IN [set |-> TRUE, reported |-> more, hasMore |-> more,
        cursor |-> more /\ "nextPageStart" \in DOMAIN envelope,
        next |-> IF more /\ "nextPageStart" \in DOMAIN envelope
                 THEN envelope["nextPageStart"] ELSE 0,
        envelope |-> envelope]

NoCall == [caller |-> "none", op |-> "none", projectKey |-> "", params |-> EmptyObject]

PageInit ==
    /\ pgPc = "idle"
    /\ call = NoCall
    /\ apiRequest = EmptyObject
    /\ svcResult = EmptyObject
    /\ pgEnvelope = EmptyObject
    /\ cliView = NoView
    /\ toolView = NoView
    /\ listed = 0

\* ----------------------------------------------------------- calling layers
\* createValidationError (utils/error.util)
createValidationError(message) == McpError(message, VALIDATION_ERROR, 400, "none")

\* a thrown value that is not an Error; message holds String(value)
ThrownValue(text) == [NoError EXCEPT !.cls = "value", !.message = Str(text)]

\* ensureMcpError: an McpError is returned as it is, anything else becomes
\* createUnexpectedError(error) or createUnexpectedError(String(error))
ensureMcpError(error) ==
    IF error.cls = "McpError" THEN error ELSE createUnexpectedError(error)

\* what a tool handler returns or a CLI command leaves behind: the content
\* items returned, the lines printed on stdout and stderr, the exit code (-1:
\* the process goes on), the McpError that was reported, and whether an
\* exception left the handler
NoExit == -1
NoOutcome ==
    [kind |-> "none", content |-> <<>>, stdout |-> <<>>, stderr |-> <<>>,
     exitCode |-> NoExit, error |-> NoError, thrown |-> FALSE]

\* return { content: [{ type: 'text', text }] }
ToolContent(text) == [NoOutcome EXCEPT !.kind = "returned", !.content = <<text>>]

formatErrorForMcpToolNoPrefix(error) ==
    LET mcpError == ensureMcpError(error)
    IN [ToolContent(mcpError.message) EXCEPT !.error = mcpError]

\* formatErrorForMcpTool: one text item `Error: ${mcpError.message}`
formatErrorForMcpTool(error) ==
    LET mcpError == ensureMcpError(error)
    IN [ToolContent(<<"Error: ">> \o mcpError.message) EXCEPT !.error = mcpError]

handleCliErrorNoExit(error) ==
    LET mcpError == ensureMcpError(error)
    IN [NoOutcome EXCEPT !.kind = "returned",
                         !.stderr = <<(<<"Error: ">> \o mcpError.message)>>,
                         !.error = mcpError]

\* handleCliError: console.error(`Error: ${mcpError.message}`); process.exit(1)
handleCliError(error) ==
    LET mcpError == ensureMcpError(error)
    IN [NoOutcome EXCEPT !.kind = "exited",
                         !.stderr = <<(<<"Error: ">> \o mcpError.message)>>,
                         !.exitCode = 1,
                         !.error = mcpError]

\* the operations, one for each shape of handler, controller and service method
ProjectOps == {"getProject", "listProjects"}
RepositoryOps ==
    {"listRepositories", "getRepository", "getFileContent", "listBranches",
     "getDefaultBranch"}
Ops == ProjectOps \cup RepositoryOps
PagedOps == {"listProjects", "listRepositories", "listBranches"}
Layers == {"tool", "cli"}

\* the identifiers an operation takes
IdentifiersOf(op) ==
    CASE op = "listProjects" -> {}
      [] op \in {"getProject", "listRepositories"} -> {"projectKey"}
      [] op = "getFileContent" -> {"projectKey", "repoSlug", "filePath"}
      [] OTHER -> {"projectKey", "repoSlug"}

IdentifierValues(k) ==
    CASE k = "projectKey" -> {"", "PROJ"}
      [] k = "repoSlug" -> {"", "repo"}
      [] OTHER -> {"", "README.md"}

LimitValues == {0, 25, 101}
StartValues == {-1, 0}

\* limit and start of a paged operation, each optional
PageParamsOf(op) ==
    IF op \in PagedOps
    THEN {[k \in ks |-> IF k = "limit" THEN l ELSE s] :
            ks \in SUBSET {"limit", "start"}, l \in LimitValues, s \in StartValues}
    ELSE {EmptyObject}

\* the two versions of AtlassianRepositoriesService.getFileContent: "stream"
\* awaits repositoryApi.streamFiles, "raw" finds no getRaw method on the
\* generated API and calls fetch itself
VariantsOf(op) == IF op = "getFileContent" THEN {"stream", "raw"} ELSE {"api"}

ArgsOf(op) ==
    {[k \in {"projectKey", "repoSlug", "filePath"} |->
        CASE k = "projectKey" -> pk [] k = "repoSlug" -> rs [] OTHER -> fp] :
            pk \in (IF "projectKey" \in IdentifiersOf(op)
                    THEN IdentifierValues("projectKey") ELSE {""}),
            rs \in (IF "repoSlug" \in IdentifiersOf(op)
                    THEN IdentifierValues("repoSlug") ELSE {""}),
            fp \in (IF "filePath" \in IdentifiersOf(op)
                    THEN IdentifierValues("filePath") ELSE {""})}

NoInvocation ==
    [via |-> "none", op |-> "none", variant |-> "api",
     args |-> [k \in {"projectKey", "repoSlug", "filePath"} |-> ""],
     params |-> EmptyObject]

EmptyIdentifier(i) == \E k \in IdentifiersOf(i.op) : i.args[k] = ""

\* limit <= 0 || limit > 100, start < 0, for the members that are defined
LimitOutOfRange(params) ==
    "limit" \in DOMAIN params /\ (params["limit"] <= 0 \/ params["limit"] > 100)
StartOutOfRange(params) ==
    "start" \in DOMAIN params /\ params["start"] < 0

\* the checks a tool handler makes before it calls the service: the list
\* handlers of projects and repositories check limit and start, the get
\* handlers of project, repository and file content check their identifiers,
\* the handlers of branches and default branch check nothing.  NoError: passed.
toolValidation(i) ==
    CASE i.op \in {"listProjects", "listRepositories"} ->
            IF LimitOutOfRange(i.params)
            THEN createValidationError(<<"Parameter \"limit\" must be between 1 and 100.">>)
            ELSE IF StartOutOfRange(i.params)
            THEN createValidationError(<<"Parameter \"start\" must be 0 or greater.">>)
            ELSE NoError
      [] i.op = "getProject" ->
            IF EmptyIdentifier(i)
            THEN createValidationError(<<"Required parameter \"projectKey\" must be a non-empty string.">>)
            ELSE NoError
      [] i.op = "getRepository" ->
            IF EmptyIdentifier(i)
            THEN createValidationError(<<"Required parameters \"projectKey\" and \"repoSlug\" must be non-empty strings.">>)
            ELSE NoError
      [] i.op = "getFileContent" ->
            IF EmptyIdentifier(i)
            THEN createValidationError(<<"projectKey, repoSlug, and filePath are required.">>)
            ELSE NoError
      [] OTHER -> NoError

\* the first statement of the methods of AtlassianRepositoriesService:
\* throw new Error('... required') for an empty identifier; the methods of
\* AtlassianProjectsService have no such statement.  NoError: passed.
servicePrecondition(i) ==
    IF i.op \in RepositoryOps /\ EmptyIdentifier(i)
    THEN PlainError(
            CASE i.op = "listRepositories" -> <<"projectKey parameter is required">>
              [] i.op = "getFileContent" -> <<"projectKey, repoSlug, and filePath are required">>
              [] OTHER -> <<"projectKey and repoSlug parameters are required">>)
    ELSE NoError

\* the service method behind an operation: AtlassianProjectsService converts
\* what it catches, AtlassianRepositoriesService has no catch block
ServiceOf(op) ==
    CASE op = "getProject" -> "convert"
      [] op = "listProjects" -> "convertList"
      [] OTHER -> "direct"

\* catch block of AtlassianProjectsService.listProjects
listProjectsCatch(error) ==
    IF error.cls = "ApiClientError"
    THEN LET detail == ErrorDetail(error)
         IN IF error.statusCode = 404
            THEN createNotFoundError(<<"Failed to list projects: Not Found. ">> \o detail)
            ELSE createApiError(
                     <<"Failed to list projects: ">> \o error.message \o <<". ">>
                     \o detail,
                     error.statusCode, error)
    ELSE createUnexpectedError(error)

\* the error thrown by direct fetch in getFileContent when !response.ok
rawFetchError(status, body) ==
    PlainError(<<"Failed to fetch file content: ", StatusLine(status), ". Response: ">>
               \o BodyText(body))

\* catch block of the controller methods: AtlassianProjectsController throws
\* new McpError(..., API_ERROR, 500, error), AtlassianRepositoriesController
\* throws createApiError(..., undefined, e)
controllerCatch(i, e) ==
    CASE i.op = "getProject" ->
            McpError(<<"Failed to get project ", i.args["projectKey"]>>,
                     API_ERROR, 500, e.cls)
      [] i.op = "listProjects" ->
            McpError(<<"Failed to list projects">>, API_ERROR, 500, e.cls)
      [] i.op = "listRepositories" ->
            createApiError(<<"Error listing repositories for project ",
                             i.args["projectKey"]>>, NoStatus, e)
      [] i.op = "getFileContent" ->
            createApiError(<<"Error getting file content for ", i.args["filePath"]>>,
                           NoStatus, e)
      [] OTHER ->
            createApiError(
                <<(CASE i.op = "getRepository" -> "Error getting repository "
                     [] i.op = "listBranches" -> "Error listing branches for "
                     [] OTHER -> "Error getting default branch for "),
                  i.args["projectKey"], "/", i.args["repoSlug"]>>,
                NoStatus, e)

\* an execution as a caller keeps it: what went in and what came out
NoRun ==
    [kept |-> FALSE, at |-> 0, req |-> NoRequest, env |-> [k \in {} |-> <<>>],
     raw |-> NoRaw, body |-> NoBody, hdr |-> NoAuth, result |-> NoError]

CallInit ==
    /\ lpc = "idle"
    /\ inv = NoInvocation
    /\ out = NoOutcome
    /\ calls = 0
    /\ journal = NoRun

\* ------------------------------------------------ requests in progress at once
\* Node runs one callback at a time: the requests of several tool invocations
\* interleave at their awaits.  Each request has its own request config /
\* RequestContext, its own promise chain and its own response; what they
\* share is process.env and the singletons built at module load
\* (BitbucketClient.instance, the services with their API configuration).
Slots == {1, 2}

\* the response the transport gives to a request
NoResponse == [kind |-> "none", status |-> NoStatus, body |-> NoBody, msg |-> ""]

NoSlot ==
    [pc |-> "idle", req |-> NoRequest, hdr |-> NoAuth, netCalls |-> 0,
     raw |-> NoRaw, err |-> NoError, result |-> NoError,
     resp |-> NoResponse,
     started |-> 0, finished |-> 0]

ParInit ==
    /\ par = [i \in Slots |-> NoSlot]
    /\ ref = 0

\* ------------------------------------------------------ configuration loader
NODE_ENV == "NODE_ENV"
nodeEnvVars == {"NODE_ENV", "PATH", "PWD", "HOME", "SHELL"}

\* A configuration file: whether it exists, and the variables it defines.
\* For the global file the variables are those of
\* config[packageName].environments.
NoFile == [exists |-> FALSE, vars |-> [k \in {} |-> <<>>]]
NoFiles == [dotenv |-> NoFile, dotenvTest |-> NoFile, global |-> NoFile]

\* the keys the files define here, and the value each source gives them
LoadKeys == {URL_KEY, TOKEN_KEY}
ProcessValue == <<101>>                                      \* "e"
FileValue(source) ==
    CASE source = "dotenvTest" -> <<116>>                    \* "t"
      [] source = "dotenv" -> <<100>>                        \* "d"
      [] source = "global" -> <<103>>                        \* "g"
FileStates(source) ==
    {NoFile} \cup {[exists |-> TRUE, vars |-> [k \in ks |-> FileValue(source)]] :
                     ks \in SUBSET LoadKeys}

\* dotenv.config(): the variables of the file are written to process.env,
\* except those process.env already has (no override option is passed); a
\* missing file gives result.error and changes nothing
dotenvConfig(e, file) ==
    IF ~file.exists THEN e
    ELSE [k \in DOMAIN e \cup DOMAIN file.vars |->
             IF k \in DOMAIN e THEN e[k] ELSE file.vars[k]]

\* loadFromGlobalConfig: each entry of environments is written to
\* process.env only if process.env[key] === undefined
loadFromGlobalConfig(e, file) ==
    IF ~file.exists THEN e
    ELSE [k \in DOMAIN e \cup DOMAIN file.vars |->
             IF k \in DOMAIN e THEN e[k] ELSE file.vars[k]]

loadFromEnvFile(e, f) == dotenvConfig(e, f.dotenv)
loadFromTestEnvFile(e, f) == dotenvConfig(e, f.dotenvTest)

IsTest(e) == NODE_ENV \in DOMAIN e /\ e[NODE_ENV] = "test"

\* the body of load() when the configuration is not loaded yet: the global
\* file first, then .env, then .env.test when NODE_ENV is test
loadSources(e, f) ==
    LET g == loadFromGlobalConfig(e, f.global)
        d == loadFromEnvFile(g, f)
    IN IF IsTest(d) THEN loadFromTestEnvFile(d, f) ELSE d

SourcesRead(e) == IF IsTest(e) THEN 3 ELSE 2

LoaderInit ==
    /\ configLoaded = FALSE
    /\ files = NoFiles
    /\ reads = 0
    /\ loads = 0

\* ------------------------------------------------------------ getFileContent
\* Text whose characters matter (identifiers, paths, refs) is a sequence of
\* character codes.
Slash == 47
Percent == 37

Unreserved(c) ==
    \/ c \in 48..57 \/ c \in 65..90 \/ c \in 97..122
    \/ c \in {45, 95, 46, 33, 126, 42, 39, 40, 41}

HexDigit(n) == IF n < 10 THEN 48 + n ELSE 55 + n

\* encodeURIComponent on ASCII text
RECURSIVE encodeURIComponent(_)
encodeURIComponent(t) ==
    IF t = <<>> THEN <<>>
    ELSE (IF Unreserved(t[1]) THEN <<t[1]>>
          ELSE <<Percent, HexDigit(t[1] \div 16), HexDigit(t[1] % 16)>>)
         \o encodeURIComponent(Tail(t))

\* t.split('/'): the segments between the slashes
RECURSIVE SplitSlash(_, _)
SplitSlash(t, segment) ==
    IF t = <<>> THEN <<segment>>
    ELSE IF t[1] = Slash THEN <<segment>> \o SplitSlash(Tail(t), <<>>)
    ELSE SplitSlash(Tail(t), Append(segment, t[1]))

\* segments.join('/')
RECURSIVE JoinSlash(_)
JoinSlash(segments) ==
    IF Len(segments) = 1 THEN segments[1]
    ELSE segments[1] \o <<Slash>> \o JoinSlash(Tail(segments))

\* filePath.split('/').map(encodeURIComponent).join('/')
encodedFilePath(filePath) ==
    JoinSlash([j \in 1..Len(SplitSlash(filePath, <<>>)) |->
                  encodeURIComponent(SplitSlash(filePath, <<>>)[j])])

\* The request of the version that calls fetch itself: the URL
\* `${baseURL}/projects/${key}/repos/${slug}/raw/${path}` with `?at=${ref}`
\* appended when atRef is truthy; query holds the parameters that are present.
rawRequest(projectKey, repoSlug, filePath, atRef) ==
    [call |-> "fetch", resource |-> "raw",
     projectKey |-> encodeURIComponent(projectKey),
     repoSlug |-> encodeURIComponent(repoSlug),
     path |-> encodedFilePath(filePath),
     query |-> IF Truthy(atRef) THEN [k \in {"at"} |-> encodeURIComponent(atRef)]
               ELSE [k \in {} |-> <<>>]]

\* The request of the version that awaits repositoryApi.streamFiles: the
\* StreamFiles1Request { projectKey, repositorySlug, path, at }, handed to the
\* generated method of the files resource; at is a member also when undefined
streamFilesRequest(projectKey, repoSlug, filePath, atRef) ==
    [call |-> "streamFiles", resource |-> "files",
     projectKey |-> projectKey, repoSlug |-> repoSlug, path |-> filePath,
     query |-> IF Truthy(atRef) THEN [k \in {"at"} |-> atRef]
               ELSE [k \in {} |-> <<>>]]

\* A successful response: its body text, in fragments, and for a JSON body
\* the items of its member values.  An item has the members that are present.
PlainBody == [text |-> <<"This is the content of the README file.\n">>, json |-> FALSE,
              values |-> <<>>]
JsonBody(text, values) == [text |-> text, json |-> TRUE, values |-> values]
FileBodies ==
    {PlainBody,
     JsonBody(<<"{\"values\":[]}">>, <<>>),
     JsonBody(<<"{\"values\":[{\"content\":\"", "hello", "\"}]}">>,
              <<[k \in {"content"} |-> <<"hello">>]>>),
     JsonBody(<<"{\"values\":[{\"text\":\"", "hello", "\"}]}">>,
              <<[k \in {"text"} |-> <<"hello">>]>>),
     JsonBody(<<"{\"values\":[{\"lines\":[\"", "a", "\",\"", "b", "\"]}]}">>,
              <<[k \in {"lines"} |-> <<"a", "b">>]>>),
     JsonBody(<<"{\"values\":[{\"path\":\"", "x", "\"}]}">>,
              <<[k \in {"path"} |-> <<"x">>]>>)}

\* lines.join('\n')
RECURSIVE JoinLines(_)
JoinLines(lines) ==
    IF lines = <<>> THEN <<>>
    ELSE IF Len(lines) = 1 THEN <<lines[1]>>
    ELSE <<lines[1], "\n">> \o JoinLines(Tail(lines))

\* JSON.stringify of an item with the one member path
StringifyItem(item) == <<"{\"path\":\"">> \o item["path"] \o <<"\"}">>

\* the content the streamFiles version returns: from the first item of
\* values its content, else its text, else its lines joined, else the item
\* serialised; '' when there are no values
streamContent(body) ==
    IF Len(body.values) > 0
    THEN LET first == body.values[1]
         IN IF "content" \in DOMAIN first THEN first["content"]
            ELSE IF "text" \in DOMAIN first THEN first["text"]
            ELSE IF "lines" \in DOMAIN first THEN JoinLines(first["lines"])
            ELSE StringifyItem(first)
    ELSE <<>>

\* the content the fetch version returns: await response.text()
rawContent(body) == body.text

FileKeys == {<<>>, <<80>>, <<80, 32, 81>>}                   \* "", "P", "P Q"
FileSlugs == {<<>>, <<114>>}                                 \* "", "r"
FilePaths == {<<>>, <<97>>, <<100, 47, 97>>, <<100, 47, 97, 32, 98>>}
                                                             \* "", "a", "d/a", "d/a b"
FileRefs == {<<>>, <<109>>, <<102, 47, 116>>}                \* none, "m", "f/t"
FileVersions == {"raw", "stream"}

NoFileRequest ==
    [call |-> "none", resource |-> "none", projectKey |-> <<>>, repoSlug |-> <<>>,
     path |-> <<>>, query |-> [k \in {} |-> <<>>]]
NoFileBody == [text |-> <<>>, json |-> FALSE, values |-> <<>>]
NoFileCall ==
    [pc |-> "idle", version |-> "none",
     args |-> [projectKey |-> <<>>, repoSlug |-> <<>>, filePath |-> <<>>, atRef |-> <<>>],
     request |-> NoFileRequest, body |-> NoFileBody, content |-> <<>>,
     error |-> NoError, calls |-> 0]

FileInit == fc = NoFileCall

\* the request object handed from stage to stage (requestConfig of axios,
\* context.init with context.url of the generated client): hasHeaders tells
\* whether the member headers exists, headers holds the headers by name
NoHeaders == [k \in {} |-> ""]
NoConfig == [method |-> "", url |-> "", body |-> "", hasHeaders |-> FALSE,
             headers |-> NoHeaders]

\* no request is on its way through the request stages
NoStageRun ==
    [impl |-> "none", pos |-> "idle", given |-> NoConfig, config |-> NoConfig,
     log |-> <<>>, twinEnv |-> <<>>, twinConfig |-> NoConfig, twinLog |-> <<>>]
StageInit == sr = NoStageRun

MoreInit == ParInit /\ LoaderInit /\ FileInit /\ StageInit

PipeInit ==
    /\ env \in EnvStates
    /\ instance = FALSE
    /\ pc = "idle"
    /\ req = NoRequest
    /\ hdr = NoAuth
    /\ netCalls = 0
    /\ stages = <<>>
    /\ raw = NoRaw
    /\ err = NoError
    /\ result = NoError
    /\ served = 0

Init == PipeInit /\ PageInit /\ CallInit /\ MoreInit

\* The order of the two request stages.  BitbucketClient registers the auth
\* interceptor and then the logging interceptor on interceptors.request
\* (createClient), and axios runs request interceptors in the reverse order of
\* their registration: the logging interceptor runs first.  The generated
\* client runs the pre hooks in the order of the middleware array (auth,
\* logging).  The exported handlers have no registration site in the
\* repository and are taken in the documented order.
RequestStages(impl) ==
    IF impl = "client" THEN <<"logreq", "auth">> ELSE <<"auth", "logreq">>
FirstStage(impl) == RequestStages(impl)[1]
NextStage(impl, s) ==
    IF RequestStages(impl)[1] = s THEN RequestStages(impl)[2] ELSE "transport"

\* the auth stage of the current request has not run yet
BeforeAuth == pc \in {"auth", "logreq"} /\ \A j \in 1..Len(stages) : stages[j] # "auth"

\* config.set(key, value); the configuration changes between requests and
\* between the issue of a request and the run of its auth stage
ConfigSet(key, value) ==
    /\ pc = "idle" \/ BeforeAuth
    /\ served < MaxRequests
    /\ env' = [k \in DOMAIN env \cup {key} |-> IF k = key THEN value ELSE env[k]]
    /\ UNCHANGED <<moreVars, pageVars, callVars, journal, instance, pc, req, hdr, netCalls, stages, raw, err, result, served>>

\* config.reset(): configLoaded is cleared and every key but Node's own is
\* deleted from process.env
ConfigResetKeepsKeys ==
    /\ pc = "idle" \/ BeforeAuth
    /\ served < MaxRequests
    /\ configLoaded' = FALSE
    /\ env' = env
    /\ UNCHANGED <<parVars, loaderVars, fc, sr, pageVars, callVars, journal, instance, pc, req, hdr, netCalls, stages, raw, err, result, served>>

ConfigReset ==
    /\ pc = "idle" \/ BeforeAuth
    /\ served < MaxRequests
    /\ configLoaded' = FALSE
    /\ env' = [k \in DOMAIN env \cap nodeEnvVars |-> env[k]]
    /\ UNCHANGED <<parVars, loaderVars, fc, sr, pageVars, callVars, journal, instance, pc, req, hdr, netCalls, stages, raw, err, result, served>>

\* BitbucketClient.createClient: throws unless the server URL is configured
createClientThrows(e) == ~Truthy(ConfigGet(e, URL_KEY))
UrlNotConfigured ==
    PlainError(<<"Bitbucket Server URL is not configured. Please set ATLASSIAN_BITBUCKET_SERVER_URL environment variable.">>)

\* A caller issues getProject(projectKey), or getRepository(projectKey,
\* "repo") for the service without catch block on the generated client.  Pipeline "client" first obtains
\* BitbucketClient.getInstance(), which constructs the client once; the other
\* pipelines read no server URL check at construction.
Start(impl, svc, projectKey) ==
    /\ pc = "idle"
    /\ served < MaxRequests
    /\ req' = [impl |-> impl, svc |-> svc, projectKey |-> projectKey]
    /\ hdr' = NoAuth
    /\ netCalls' = 0
    /\ stages' = <<>>
    /\ raw' = NoRaw
    /\ err' = NoError
    /\ IF impl = "client" /\ ~instance /\ createClientThrows(env)
       THEN /\ result' = UrlNotConfigured
            /\ pc' = "done"
            /\ UNCHANGED instance
       ELSE /\ result' = NoError
            /\ pc' = FirstStage(impl)
            /\ instance' = (instance \/ impl = "client")
    /\ UNCHANGED <<moreVars, pageVars, callVars, journal, env, served>>

AuthStageFirstOnly ==
    /\ pc = "auth"
    /\ hdr' = IF served > 0 THEN hdr
              ELSE CASE req.impl = "client" ->
                          clientAuthInterceptor(env, hdr, Undefined, Undefined)
                     [] req.impl = "api" -> authMiddleware(env, hdr)
                     [] OTHER -> addAuthHeader(env, hdr)
    /\ stages' = Append(stages, "auth")
    /\ pc' = NextStage(req.impl, "auth")
    /\ UNCHANGED <<moreVars, pageVars, callVars, journal, env, instance, req, netCalls, raw, err, result, served>>

AuthStageCached ==
    /\ pc = "auth"
    /\ LET e == IF journal.kept THEN journal.env ELSE env
       IN hdr' = CASE req.impl = "client" ->
                        clientAuthInterceptor(e, hdr, Undefined, Undefined)
                   [] req.impl = "api" -> authMiddleware(e, hdr)
                   [] OTHER -> addAuthHeader(e, hdr)
    /\ stages' = Append(stages, "auth")
    /\ pc' = NextStage(req.impl, "auth")
    /\ UNCHANGED <<moreVars, pageVars, callVars, journal, env, instance, req, netCalls, raw, err, result, served>>

\* stage A: the request interceptor / pre middleware that injects credentials;
\* each of them reads the configuration when it runs
AuthStage ==
    /\ pc = "auth"
    /\ hdr' = CASE req.impl = "client" ->
                     clientAuthInterceptor(env, hdr, Undefined, Undefined)
                [] req.impl = "api" -> authMiddleware(env, hdr)
                [] OTHER -> addAuthHeader(env, hdr)
    /\ stages' = Append(stages, "auth")
    /\ pc' = NextStage(req.impl, "auth")
    /\ UNCHANGED <<moreVars, pageVars, callVars, journal, env, instance, req, netCalls, raw, err, result, served>>

\* stage B: logRequest / loggingMiddleware.pre returns the request unchanged
LogRequest ==
    /\ pc = "logreq"
    /\ stages' = Append(stages, "logreq")
    /\ pc' = NextStage(req.impl, "logreq")
    /\ UNCHANGED <<moreVars, pageVars, callVars, journal, env, instance, req, hdr, netCalls, raw, err, result, served>>

\* stage C, success: a 2xx response
TransportSuccess ==
    /\ pc = "transport"
    /\ netCalls' = netCalls + 1
    /\ raw' = OkResponse
    /\ stages' = Append(stages, "transport")
    /\ pc' = "logresp"
    /\ UNCHANGED <<moreVars, pageVars, callVars, journal, env, instance, req, hdr, err, result, served>>

\* stage C, a response that is not 2xx: axios rejects with an AxiosError that
\* carries the response, fetch resolves with a response that is not ok
TransportHttpError(status, body) ==
    /\ pc = "transport"
    /\ req.impl = "api" => status # NoStatus
    /\ netCalls' = netCalls + 1
    /\ raw' = [kind |-> "response", status |-> status,
               error |-> IF req.impl = "api" THEN NoError
                         ELSE AxiosError(StatusMessage, TRUE, status, body)
                                  ]
    /\ err' = IF req.impl = "api" THEN [NoError EXCEPT !.body = body] ELSE NoError
    /\ stages' = Append(stages, "transport")
    /\ pc' = "logresp"
    /\ UNCHANGED <<moreVars, pageVars, callVars, journal, env, instance, req, hdr, result, served>>

\* the mutant gives the transport a way out that leaves no outcome
TransportFailureAborts(msg) ==
    /\ pc = "transport"
    /\ pc' = "idle"
    /\ req' = NoRequest
    /\ hdr' = NoAuth
    /\ stages' = <<>>
    /\ UNCHANGED <<moreVars, pageVars, callVars, journal, env, instance, netCalls, raw, err, result, served>>

\* stage C, no response at all (DNS, refused, timeout, TLS): axios rejects
\* with an AxiosError without response, fetch rejects with an Error
TransportFailure(msg) ==
    /\ pc = "transport"
    /\ netCalls' = netCalls + 1
    /\ raw' = [kind |-> "failure", status |-> NoStatus,
               error |-> IF req.impl = "api"
                         THEN PlainError(Str(msg))
                         ELSE AxiosError(msg, FALSE, NoStatus, NoBody)]
    /\ stages' = Append(stages, "transport")
    /\ pc' = IF req.impl = "api" THEN "service" ELSE "logresp"
    /\ err' = IF req.impl = "api" THEN PlainError(Str(msg)) ELSE NoError
    /\ UNCHANGED <<moreVars, pageVars, callVars, journal, env, instance, req, hdr, result, served>>

\* stage D: logResponse / logResponseError / loggingMiddleware.post pass the
\* outcome on unchanged
LogResponse ==
    /\ pc = "logresp"
    /\ stages' = Append(stages, "logresp")
    /\ pc' = IF raw = OkResponse THEN "service" ELSE "normalize"
    /\ UNCHANGED <<moreVars, pageVars, callVars, journal, env, instance, req, hdr, netCalls, raw, err, result, served>>

\* stage E: the error interceptor / errorHandlingMiddleware.post
Normalize ==
    /\ pc = "normalize"
    /\ err' = CASE req.impl = "client" -> clientErrorInterceptor(raw.error)
                [] req.impl = "handlers" -> handleErrorResponse(raw.error)
                [] req.impl = "class" -> ErrorInterceptorOnError(raw.error)
                [] OTHER -> errorHandlingMiddleware(raw.status, "GET",
                                                    RequestUrl(req), err.body)
    /\ stages' = Append(stages, "normalize")
    /\ pc' = "service"
    /\ UNCHANGED <<moreVars, pageVars, callVars, journal, env, instance, req, hdr, netCalls, raw, result, served>>

\* the service method returns the response or runs its catch block
ServiceReturn ==
    /\ pc = "service"
    /\ result' = IF raw = OkResponse THEN NoError
                 ELSE CASE req.svc = "convert" -> getProjectCatch(req.projectKey, err)
                        [] req.svc = "convertList" -> listProjectsCatch(err)
                        [] OTHER -> err
    /\ pc' = "done"
    /\ UNCHANGED <<moreVars, pageVars, callVars, journal, env, instance, req, hdr, netCalls, stages, raw, err, served>>

\* the caller has its result and drops the request's objects; the next
\* request may be issued
Finish ==
    /\ pc = "done"
    /\ pc' = "idle"
    /\ served' = served + 1
    /\ req' = NoRequest
    /\ hdr' = NoAuth
    /\ netCalls' = 0
    /\ stages' = <<>>
    /\ raw' = NoRaw
    /\ err' = NoError
    /\ result' = NoError
    /\ UNCHANGED <<moreVars, pageVars, callVars, journal, env, instance>>

\* ------------------------------------------------------------- list calls
\* number of list calls issued one after the other in a behaviour
MaxListCalls == 2

\* a controller or a tool handler calls the list method of its service,
\* which builds the request object and awaits the generated API method
ListCall(caller, op, projectKey, params) ==
    /\ pgPc = "idle"
    /\ listed < MaxListCalls
    /\ call' = [caller |-> caller, op |-> op, projectKey |-> projectKey,
                params |-> params]
    /\ apiRequest' = IF op = "listProjects" THEN listProjectsRequest(params)
                     ELSE listRepositoriesRequest(projectKey, params)
    /\ svcResult' = EmptyObject
    /\ pgEnvelope' = EmptyObject
    /\ pgPc' = "api"
    /\ UNCHANGED <<moreVars, pipeVars, callVars, journal, cliView, toolView, listed>>

\* the API method resolves with the parsed envelope and the service returns
ApiResolves(envelope) ==
    /\ pgPc = "api"
    /\ pgEnvelope' = envelope
    /\ svcResult' = listReturn(envelope)
    /\ pgPc' = "returned"
    /\ UNCHANGED <<moreVars, pipeVars, callVars, journal, call, apiRequest, cliView, toolView, listed>>

\* the controller formats the page and its pagination
ControllerReturn ==
    /\ pgPc = "returned"
    /\ call.caller = "controller"
    /\ cliView' = ControllerView(svcResult)
    /\ pgPc' = "idle"
    /\ listed' = listed + 1
    /\ UNCHANGED <<moreVars, pipeVars, callVars, journal, call, apiRequest, svcResult, pgEnvelope, toolView>>

\* the tool handler formats the page and its pagination note
ToolReturn ==
    /\ pgPc = "returned"
    /\ call.caller = "tool"
    /\ toolView' = ToolView(svcResult)
    /\ pgPc' = "idle"
    /\ listed' = listed + 1
    /\ UNCHANGED <<moreVars, pipeVars, callVars, journal, call, apiRequest, svcResult, pgEnvelope, cliView>>

PageNext ==
    \/ \E c \in Callers : \E o \in ListOps : \E k \in ProjectKeys :
         \E p \in ParamsOf(o) : ListCall(c, o, k, p)
    \/ \E e \in Envelopes : ApiResolves(e)
    \/ ControllerReturn
    \/ ToolReturn

\* the list calls, under a fixed configuration
PageEnv == [k \in {URL_KEY, TOKEN_KEY} |-> IF k = URL_KEY THEN <<104>> ELSE <<116, 107>>]
PageSpecInit ==
    /\ env = PageEnv
    /\ instance = FALSE
    /\ pc = "idle"
    /\ req = NoRequest
    /\ hdr = NoAuth
    /\ netCalls = 0
    /\ stages = <<>>
    /\ raw = NoRaw
    /\ err = NoError
    /\ result = NoError
    /\ served = 0
    /\ PageInit
    /\ CallInit
    /\ MoreInit

SpecPage == PageSpecInit /\ [][PageNext]_vars

Next ==
    \/ \E k \in ConfigKeys : \E v \in ValuesOf(k) : ConfigSet(k, v)
    \/ ConfigReset
    \/ \E i \in Impls : \E s \in ServicesOf(i) : \E k \in ProjectKeys : Start(i, s, k)
    \/ AuthStage
    \/ LogRequest
    \/ TransportSuccess
    \/ \E st \in ErrorStatuses : \E b \in Bodies : TransportHttpError(st, b)
    \/ \E m \in TransportMessages : TransportFailure(m)
    \/ LogResponse
    \/ Normalize
    \/ ServiceReturn
    \/ Finish

Spec == Init /\ [][Next]_vars

\* ------------------------------------------- tool handlers and CLI commands
\* number of invocations made one after the other in a behaviour
MaxCalls == 2

\* The input schema a paged tool is registered with: limit is a positive
\* integer and start a non-negative one (no upper bound on limit).  Arguments
\* the schema refuses never reach the handler; the options of a CLI command
\* are parsed with parseInt and reach the controller whatever their value.
toolSchemaAccepts(params) ==
    /\ "limit" \in DOMAIN params => params["limit"] > 0
    /\ "start" \in DOMAIN params => params["start"] >= 0

\* A tool handler or the action of a CLI command is invoked.  The tool handler
\* first makes its own checks and returns formatErrorForMcpTool(...) when one
\* fails; the CLI action hands its options to the controller, which checks
\* nothing.  Both then await the service.
Invoke(via, op, variant, args, params) ==
    /\ pc = "idle"
    /\ via = "tool" => toolSchemaAccepts(params)
    /\ lpc # "service"
    /\ calls < MaxCalls
    /\ LET i == [via |-> via, op |-> op, variant |-> variant, args |-> args,
                 params |-> params]
           v == IF via = "tool" THEN toolValidation(i) ELSE NoError
       IN /\ inv' = i
          /\ IF v # NoError
             THEN out' = formatErrorForMcpTool(v) /\ lpc' = "returned"
             ELSE out' = NoOutcome /\ lpc' = "service"
    /\ calls' = calls + 1
    /\ UNCHANGED <<moreVars, pipeVars, pageVars, journal>>

\* the service method throws on an empty identifier before it builds a request
ServiceRejects ==
    /\ lpc = "service"
    /\ pc = "idle"
    /\ servicePrecondition(inv) # NoError
    /\ result' = servicePrecondition(inv)
    /\ pc' = "done"
    /\ UNCHANGED <<moreVars, pageVars, callVars, journal, env, instance, req, hdr, netCalls, stages, raw, err, served>>

\* the service method awaits a method of the generated API, whose request
\* runs through the middleware of createBitbucketApiConfig
ServiceCall ==
    /\ lpc = "service"
    /\ servicePrecondition(inv) = NoError
    /\ inv.variant # "raw"
    /\ Start("api", ServiceOf(inv.op), inv.args["projectKey"])

\* getFileContent, direct fetch: createBitbucketApiConfig() is called for
\* basePath and headers (the configuration is created without headers), and
\* fetch(url, { method: 'GET', headers: { ...headers, Accept } }) is awaited;
\* no middleware runs
RawFetchCall ==
    /\ lpc = "service"
    /\ pc = "idle"
    /\ served < MaxRequests
    /\ servicePrecondition(inv) = NoError
    /\ inv.variant = "raw"
    /\ req' = [impl |-> "fetch", svc |-> "direct", projectKey |-> inv.args["projectKey"]]
    /\ hdr' = NoAuth
    /\ netCalls' = 0
    /\ stages' = <<>>
    /\ raw' = NoRaw
    /\ err' = NoError
    /\ result' = NoError
    /\ pc' = "fetch"
    /\ UNCHANGED <<moreVars, pageVars, callVars, journal, env, instance, served>>

\* fetch resolves with a response that is ok: the body text is returned
RawFetchOk ==
    /\ pc = "fetch"
    /\ netCalls' = netCalls + 1
    /\ stages' = Append(stages, "transport")
    /\ raw' = OkResponse
    /\ result' = NoError
    /\ pc' = "done"
    /\ UNCHANGED <<moreVars, pageVars, callVars, journal, env, instance, req, hdr, err, served>>

\* fetch resolves with a response that is not ok: the method throws an Error
\* built from status, status text and body text; its catch block rethrows
RawFetchNotOk(status, body) ==
    /\ pc = "fetch"
    /\ status # NoStatus
    /\ netCalls' = netCalls + 1
    /\ stages' = Append(stages, "transport")
    /\ raw' = [kind |-> "response", status |-> status, error |-> NoError]
    /\ result' = rawFetchError(status, body)
    /\ pc' = "done"
    /\ UNCHANGED <<moreVars, pageVars, callVars, journal, env, instance, req, hdr, err, served>>

\* fetch rejects: the catch block rethrows the error
RawFetchRejects(msg) ==
    /\ pc = "fetch"
    /\ netCalls' = netCalls + 1
    /\ stages' = Append(stages, "transport")
    /\ raw' = [kind |-> "failure", status |-> NoStatus, error |-> PlainError(Str(msg))]
    /\ result' = PlainError(Str(msg))
    /\ pc' = "done"
    /\ UNCHANGED <<moreVars, pageVars, callVars, journal, env, instance, req, hdr, err, served>>

\* the tool handler: the formatted result, or the catch block's
\* return formatErrorForMcpTool(error)
ToolHandlerReturn ==
    /\ pc = "done"
    /\ lpc = "service"
    /\ inv.via = "tool"
    /\ out' = IF result = NoError THEN ToolContent(<<"content">>)
              ELSE formatErrorForMcpTool(result)
    /\ lpc' = "returned"
    /\ UNCHANGED <<moreVars, pipeVars, pageVars, journal, inv, calls>>

\* the CLI action: the controller method returns the content, which is
\* printed, or its catch block throws the error it builds and the action's
\* catch block calls handleCliError(error)
CliReturn ==
    /\ pc = "done"
    /\ lpc = "service"
    /\ inv.via = "cli"
    /\ out' = IF result = NoError
              THEN [NoOutcome EXCEPT !.kind = "returned", !.stdout = <<(<<"content">>)>>]
              ELSE handleCliError(controllerCatch(inv, result))
    /\ lpc' = "returned"
    /\ UNCHANGED <<moreVars, pipeVars, pageVars, journal, inv, calls>>

\* the service call is over for its caller
CallFinish ==
    /\ lpc = "returned"
    /\ Finish

CallStatuses == {401, 404, 500}
CallBodies ==
    {NoBody,
     [fmt |-> "json", errors0 |-> "Project not found", message |-> "", error |-> NoErrorMember],
     [fmt |-> "json", errors0 |-> "", message |-> "No such project", error |-> NoErrorMember]}

CallEnvs ==
    {e \in EnvStates :
        /\ DOMAIN e \in {{URL_KEY}, {URL_KEY, TOKEN_KEY}, {URL_KEY, USER_KEY, PASS_KEY}}
        /\ \A k \in DOMAIN e : e[k] # <<>>
        /\ USER_KEY \in DOMAIN e => (e[USER_KEY] = <<117>> /\ e[PASS_KEY] = <<112>>)}

CallNext ==
    \/ \E via \in Layers : \E op \in Ops : \E v \in VariantsOf(op) :
         \E a \in ArgsOf(op) : \E p \in PageParamsOf(op) : Invoke(via, op, v, a, p)
    \/ ServiceRejects
    \/ ServiceCall
    \/ RawFetchCall
    \/ RawFetchOk
    \/ \E st \in CallStatuses : \E b \in CallBodies : RawFetchNotOk(st, b)
    \/ \E m \in TransportMessages : RawFetchRejects(m)
    \/ AuthStage
    \/ LogRequest
    \/ TransportSuccess
    \/ \E st \in CallStatuses : \E b \in CallBodies : TransportHttpError(st, b)
    \/ \E m \in TransportMessages : TransportFailure(m)
    \/ LogResponse
    \/ Normalize
    \/ ServiceReturn
    \/ ToolHandlerReturn
    \/ CliReturn
    \/ CallFinish

CallSpecInit ==
    /\ env \in CallEnvs
    /\ instance = FALSE
    /\ pc = "idle"
    /\ req = NoRequest
    /\ hdr = NoAuth
    /\ netCalls = 0
    /\ stages = <<>>
    /\ raw = NoRaw
    /\ err = NoError
    /\ result = NoError
    /\ served = 0
    /\ PageInit
    /\ CallInit
    /\ MoreInit

\* the operations as tool handlers and CLI commands run them
SpecCall == CallSpecInit /\ [][CallNext]_vars

\* ------------------------------------------------------------------ progress
\* the steps a request takes once it is issued: the interceptors, middleware
\* and catch blocks are continuations of promises, which the event loop runs
\* when the promise they wait for settles
RequestStep ==
    \/ AuthStage
    \/ LogRequest
    \/ LogResponse
    \/ Normalize
    \/ ServiceReturn

\* the transport settles: axios or fetch resolves or rejects
TransportSettles ==
    \/ TransportSuccess
    \/ \E st \in CallStatuses : \E b \in CallBodies : TransportHttpError(st, b)
    \/ \E m \in TransportMessages : TransportFailure(m)
    \/ RawFetchOk
    \/ \E st \in CallStatuses : \E b \in CallBodies : RawFetchNotOk(st, b)
    \/ \E m \in TransportMessages : RawFetchRejects(m)

\* requests issued on each of the pipelines, and the direct fetch of
\* getFileContent called by its tool handler
LiveNext ==
    \/ \E i \in Impls : \E s \in ServicesOf(i) : lpc = "idle" /\ Start(i, s, "PROJ")
    \/ \E a \in ArgsOf("getFileContent") :
          Invoke("tool", "getFileContent", "raw", a, EmptyObject)
    \/ RawFetchCall
    \/ RequestStep
    \/ TransportSettles
    \/ ToolHandlerReturn
    \/ CallFinish
    \/ lpc = "idle" /\ Finish

\* every continuation that can run does run, and the transport settles
SpecLive ==
    /\ CallSpecInit
    /\ [][LiveNext]_vars
    /\ WF_vars(RequestStep)
    /\ WF_vars(TransportSettles)

\* ------------------------------------------------------- compared executions
\* the body of the response of the generated client's request (the body of
\* an axios response is part of raw.error)
ResponseBody == IF req.impl = "api" THEN err.body ELSE NoBody

\* a caller keeps one finished execution to compare a later one with
Observe ==
    /\ pc = "done"
    /\ ~journal.kept
    /\ journal' = [kept |-> TRUE, at |-> served, req |-> req, env |-> env,
                   raw |-> raw, body |-> ResponseBody, hdr |-> hdr,
                   result |-> result]
    /\ UNCHANGED <<moreVars, pipeVars, pageVars, callVars>>

TwiceKeys == {"PROJ"}
TwiceStatuses == {404}
TwiceBodies ==
    {NoBody,
     [fmt |-> "json", errors0 |-> "Project not found", message |-> "", error |-> NoErrorMember]}
TwiceEnvs ==
    {e \in CallEnvs : DOMAIN e # {URL_KEY}}

TwiceNext ==
    \/ \E k \in {TOKEN_KEY, PASS_KEY} : \E v \in ValuesOf(k) : ConfigSet(k, v)
    \/ ConfigReset
    \/ \E i \in Impls : \E s \in ServicesOf(i) : \E k \in TwiceKeys : Start(i, s, k)
    \/ AuthStage
    \/ LogRequest
    \/ TransportSuccess
    \/ \E st \in TwiceStatuses : \E b \in TwiceBodies : TransportHttpError(st, b)
    \/ TransportFailure("connect ECONNREFUSED")
    \/ LogResponse
    \/ Normalize
    \/ ServiceReturn
    \/ Observe
    \/ Finish

TwiceSpecInit ==
    /\ env \in TwiceEnvs
    /\ instance = FALSE
    /\ pc = "idle"
    /\ req = NoRequest
    /\ hdr = NoAuth
    /\ netCalls = 0
    /\ stages = <<>>
    /\ raw = NoRaw
    /\ err = NoError
    /\ result = NoError
    /\ served = 0
    /\ PageInit
    /\ CallInit
    /\ MoreInit

\* requests issued one after the other, the configuration changing in between
SpecTwice == TwiceSpecInit /\ [][TwiceNext]_vars

\* ------------------------------------------------ requests in progress at once
StartedSlots == {j \in Slots : par[j].started > 0}
FinishedSlots == {j \in Slots : par[j].finished > 0}

\* what the auth stage of the pipeline sets as Authorization header
authStage(impl, e, h) ==
    CASE impl = "client" -> clientAuthInterceptor(e, h, Undefined, Undefined)
      [] impl = "api" -> authMiddleware(e, h)
      [] OTHER -> addAuthHeader(e, h)

\* a caller issues a request while others may be in progress
ParStart(i, impl, svc, projectKey) ==
    /\ ref = 0
    /\ par[i].started = 0
    /\ LET throws == impl = "client" /\ ~instance /\ createClientThrows(env)
       IN /\ par' = [par EXCEPT ![i] =
                       [NoSlot EXCEPT
                          !.req = [impl |-> impl, svc |-> svc, projectKey |-> projectKey],
                          !.pc = IF throws THEN "done" ELSE FirstStage(impl),
                          !.result = IF throws THEN UrlNotConfigured ELSE NoError,
                          !.started = Cardinality(StartedSlots) + 1,
                          !.finished = IF throws THEN Cardinality(FinishedSlots) + 1
                                       ELSE 0]]
          /\ instance' = (instance \/ (impl = "client" /\ ~throws))
    /\ UNCHANGED <<pageVars, callVars, journal, loaderVars, configLoaded, fc, sr, ref, env, pc, req, hdr, netCalls, stages, raw, err, result, served>>

\* every request interceptor and pre hook is given the request it belongs
\* to; the mutant below keeps one request config for all requests
ParAuthShared(i) ==
    /\ par[i].pc = "auth"
    /\ par' = [j \in Slots |->
                 IF j = i
                 THEN [par[j] EXCEPT !.hdr = authStage(par[i].req.impl, env, par[i].hdr),
                                     !.pc = NextStage(par[i].req.impl, "auth")]
                 ELSE [par[j] EXCEPT !.hdr = NoAuth]]
    /\ UNCHANGED <<pipeVars, pageVars, callVars, journal, loaderVars, configLoaded, fc, sr, ref>>

ParAuth(i) ==
    /\ par[i].pc = "auth"
    /\ par' = [par EXCEPT ![i].hdr = authStage(par[i].req.impl, env, par[i].hdr),
                          ![i].pc = NextStage(par[i].req.impl, "auth")]
    /\ UNCHANGED <<pipeVars, pageVars, callVars, journal, loaderVars, configLoaded, fc, sr, ref>>

ParLogRequest(i) ==
    /\ par[i].pc = "logreq"
    /\ par' = [par EXCEPT ![i].pc = NextStage(par[i].req.impl, "logreq")]
    /\ UNCHANGED <<pipeVars, pageVars, callVars, journal, loaderVars, configLoaded, fc, sr, ref>>

\* the transport of request i completes, whatever the state of the others
ParTransportSuccess(i) ==
    /\ par[i].pc = "transport"
    /\ par' = [par EXCEPT ![i].netCalls = @ + 1,
                          ![i].raw = OkResponse,
                          ![i].resp = [NoResponse EXCEPT !.kind = "ok"],
                          ![i].pc = "logresp"]
    /\ UNCHANGED <<pipeVars, pageVars, callVars, journal, loaderVars, configLoaded, fc, sr, ref>>

ParTransportHttpError(i, status, body) ==
    /\ par[i].pc = "transport"
    /\ LET api == par[i].req.impl = "api"
       IN par' = [par EXCEPT ![i].netCalls = @ + 1,
                             ![i].raw = [kind |-> "response", status |-> status,
                                         error |-> IF api THEN NoError
                                                   ELSE AxiosError(StatusMessage, TRUE, status, body)],
                             ![i].err = IF api THEN [NoError EXCEPT !.body = body]
                                        ELSE NoError,
                             ![i].resp = [NoResponse EXCEPT !.kind = "http",
                                              !.status = status, !.body = body],
                             ![i].pc = "logresp"]
    /\ UNCHANGED <<pipeVars, pageVars, callVars, journal, loaderVars, configLoaded, fc, sr, ref>>

ParTransportFailure(i, msg) ==
    /\ par[i].pc = "transport"
    /\ LET api == par[i].req.impl = "api"
       IN par' = [par EXCEPT ![i].netCalls = @ + 1,
                             ![i].raw = [kind |-> "failure", status |-> NoStatus,
                                         error |-> IF api THEN PlainError(Str(msg))
                                                   ELSE AxiosError(msg, FALSE, NoStatus, NoBody)],
                             ![i].err = IF api THEN PlainError(Str(msg)) ELSE NoError,
                             ![i].resp = [NoResponse EXCEPT !.kind = "failure", !.msg = msg],
                             ![i].pc = IF api THEN "service" ELSE "logresp"]
    /\ UNCHANGED <<pipeVars, pageVars, callVars, journal, loaderVars, configLoaded, fc, sr, ref>>

ParLogResponse(i) ==
    /\ par[i].pc = "logresp"
    /\ par' = [par EXCEPT ![i].pc = IF par[i].raw = OkResponse THEN "service"
                                    ELSE "normalize"]
    /\ UNCHANGED <<pipeVars, pageVars, callVars, journal, loaderVars, configLoaded, fc, sr, ref>>

ParNormalize(i) ==
    /\ par[i].pc = "normalize"
    /\ LET r == par[i]
       IN par' = [par EXCEPT
                    ![i].err = CASE r.req.impl = "client" -> clientErrorInterceptor(r.raw.error)
                                 [] r.req.impl = "handlers" -> handleErrorResponse(r.raw.error)
                                 [] r.req.impl = "class" -> ErrorInterceptorOnError(r.raw.error)
                                 [] OTHER -> errorHandlingMiddleware(r.raw.status, "GET",
                                                                     RequestUrl(r.req), r.err.body),
                    ![i].pc = "service"]
    /\ UNCHANGED <<pipeVars, pageVars, callVars, journal, loaderVars, configLoaded, fc, sr, ref>>

\* the promise of request i settles; the order in which requests settle is
\* the order of their last step
ParServiceReturn(i) ==
    /\ par[i].pc = "service"
    /\ LET r == par[i]
       IN par' = [par EXCEPT
                    ![i].result = IF r.raw = OkResponse THEN NoError
                                  ELSE CASE r.req.svc = "convert" ->
                                                getProjectCatch(r.req.projectKey, r.err)
                                         [] r.req.svc = "convertList" -> listProjectsCatch(r.err)
                                         [] OTHER -> r.err,
                    ![i].finished = Cardinality(FinishedSlots) + 1,
                    ![i].pc = "done"]
    /\ UNCHANGED <<pipeVars, pageVars, callVars, journal, loaderVars, configLoaded, fc, sr, ref>>

ParStatuses == {404}
ParBodies ==
    {[fmt |-> "json", errors0 |-> "Project not found", message |-> "", error |-> NoErrorMember]}
ParMessages == {"connect ECONNREFUSED"}
ParImpls == {"client", "api"}

\* the steps of the request in slot i
ParStep(i) ==
    \/ ParAuth(i)
    \/ ParLogRequest(i)
    \/ ParTransportSuccess(i)
    \/ \E st \in ParStatuses : \E b \in ParBodies : ParTransportHttpError(i, st, b)
    \/ \E m \in ParMessages : ParTransportFailure(i, m)
    \/ ParLogResponse(i)
    \/ ParNormalize(i)
    \/ ParServiceReturn(i)

\* when the requests have settled, one of them is chosen to be issued again,
\* alone, with the same arguments and the same response
Choose(i) ==
    /\ ref = 0
    /\ StartedSlots = Slots
    /\ \A j \in Slots : par[j].pc = "done"
    /\ ref' = i
    /\ UNCHANGED <<pipeVars, pageVars, callVars, journal, loaderVars, configLoaded, fc, sr, par>>

Chosen == par[IF ref = 0 THEN 1 ELSE ref]

ParNext ==
    \/ \E i \in Slots : \E impl \in ParImpls : \E s \in ServicesOf(impl) :
          ParStart(i, impl, s, "PROJ")
    \/ \E i \in Slots : ParStep(i)
    \/ \E i \in Slots : Choose(i)
    \/ ref # 0 /\ Start(Chosen.req.impl, Chosen.req.svc, Chosen.req.projectKey)
    \/ AuthStage
    \/ LogRequest
    \/ Chosen.resp.kind = "ok" /\ TransportSuccess
    \/ Chosen.resp.kind = "http" /\ TransportHttpError(Chosen.resp.status, Chosen.resp.body)
    \/ Chosen.resp.kind = "failure" /\ TransportFailure(Chosen.resp.msg)
    \/ LogResponse
    \/ Normalize
    \/ ServiceReturn

ParEnvs == TwiceEnvs

ParSpecInit ==
    /\ env \in ParEnvs
    /\ instance = FALSE
    /\ pc = "idle"
    /\ req = NoRequest
    /\ hdr = NoAuth
    /\ netCalls = 0
    /\ stages = <<>>
    /\ raw = NoRaw
    /\ err = NoError
    /\ result = NoError
    /\ served = 0
    /\ PageInit
    /\ CallInit
    /\ MoreInit

\* two requests in progress at once under one configuration, then one of
\* them again, alone
SpecPar == ParSpecInit /\ [][ParNext]_vars

\* ------------------------------------------------------ configuration loader
\* number of calls of load() in a behaviour
MaxLoads == 3

\* config.load()
Load ==
    /\ pc = "idle"
    /\ loads < MaxLoads
    /\ loads' = loads + 1
    /\ IF configLoaded
       THEN UNCHANGED <<env, reads, configLoaded>>
       ELSE /\ env' = loadSources(env, files)
            /\ reads' = reads + SourcesRead(loadFromEnvFile(loadFromGlobalConfig(env, files.global), files))
            /\ configLoaded' = TRUE
    /\ UNCHANGED <<parVars, files, fc, sr, pageVars, callVars, journal, instance, pc, req, hdr, netCalls, stages, raw, err, result, served>>

LoadNext ==
    \/ Load
    \/ \E k \in LoadKeys : ConfigSet(k, <<115>>)
    \/ ConfigReset

\* process.env when the program starts
LoadEnvs ==
    {[k \in ks \cup ns |-> IF k = NODE_ENV THEN "test" ELSE ProcessValue] :
        ks \in SUBSET LoadKeys, ns \in SUBSET {NODE_ENV}}

LoadSpecInit ==
    /\ env \in LoadEnvs
    /\ instance = FALSE
    /\ pc = "idle"
    /\ req = NoRequest
    /\ hdr = NoAuth
    /\ netCalls = 0
    /\ stages = <<>>
    /\ raw = NoRaw
    /\ err = NoError
    /\ result = NoError
    /\ served = 0
    /\ PageInit
    /\ CallInit
    /\ ParInit
    /\ FileInit
    /\ StageInit
    /\ configLoaded = FALSE
    /\ files \in [dotenv : FileStates("dotenv"), dotenvTest : FileStates("dotenvTest"),
                   global : FileStates("global")]
    /\ reads = 0
    /\ loads = 0

\* load(), set() and reset() in any order
SpecLoad == LoadSpecInit /\ [][LoadNext]_vars

\* ------------------------------------------------------------ getFileContent
\* number of calls of getFileContent in a behaviour
MaxFileCalls == 2

\* getFileContent(projectKey, repoSlug, filePath, atRef) of either version:
\* it throws when an identifier is empty, else it builds its request and
\* awaits it
GetFileContent(version, projectKey, repoSlug, filePath, atRef) ==
    /\ fc.pc = "idle"
    /\ fc.calls < MaxFileCalls
    /\ LET args == [projectKey |-> projectKey, repoSlug |-> repoSlug,
                    filePath |-> filePath, atRef |-> atRef]
           started == [NoFileCall EXCEPT !.version = version, !.args = args,
                                         !.calls = fc.calls]
       IN IF ~Truthy(projectKey) \/ ~Truthy(repoSlug) \/ ~Truthy(filePath)
          THEN fc' = [started EXCEPT
                        !.pc = "done",
                        !.error = PlainError(<<"projectKey, repoSlug, and filePath are required">>)]
          ELSE fc' = [started EXCEPT
                        !.pc = "awaiting",
                        !.request = IF version = "raw"
                                    THEN rawRequest(projectKey, repoSlug, filePath, atRef)
                                    ELSE streamFilesRequest(projectKey, repoSlug, filePath, atRef)]
    /\ UNCHANGED <<pipeVars, pageVars, callVars, journal, parVars, loaderVars, configLoaded, sr>>

\* fetch resolves with a response that is ok
RawResponds(body) ==
    /\ fc.pc = "awaiting" /\ fc.version = "raw"
    /\ fc' = [fc EXCEPT !.pc = "done", !.body = body, !.content = rawContent(body)]
    /\ UNCHANGED <<pipeVars, pageVars, callVars, journal, parVars, loaderVars, configLoaded, sr>>

\* repositoryApi.streamFiles resolves with the parsed JSON body
StreamFilesResolves(body) ==
    /\ fc.pc = "awaiting" /\ fc.version = "stream"
    /\ body.json
    /\ fc' = [fc EXCEPT !.pc = "done", !.body = body, !.content = streamContent(body)]
    /\ UNCHANGED <<pipeVars, pageVars, callVars, journal, parVars, loaderVars, configLoaded, sr>>

\* the caller has the content or the error; the next call may be made
FileCallOver ==
    /\ fc.pc = "done"
    /\ fc' = [NoFileCall EXCEPT !.calls = fc.calls + 1]
    /\ UNCHANGED <<pipeVars, pageVars, callVars, journal, parVars, loaderVars, configLoaded, sr>>

FileNext ==
    \/ \E v \in FileVersions : \E k \in FileKeys : \E r \in FileSlugs :
         \E p \in FilePaths : \E a \in FileRefs : GetFileContent(v, k, r, p, a)
    \/ \E b \in FileBodies : RawResponds(b)
    \/ \E b \in FileBodies : StreamFilesResolves(b)
    \/ FileCallOver

FileSpecInit ==
    /\ env = PageEnv
    /\ instance = FALSE
    /\ pc = "idle"
    /\ req = NoRequest
    /\ hdr = NoAuth
    /\ netCalls = 0
    /\ stages = <<>>
    /\ raw = NoRaw
    /\ err = NoError
    /\ result = NoError
    /\ served = 0
    /\ PageInit
    /\ CallInit
    /\ MoreInit

\* calls of getFileContent that the server answers successfully
SpecFile == FileSpecInit /\ [][FileNext]_vars

\* ================================================================== claims
HasValue(key) == key \in DOMAIN env /\ env[key] # <<>>

NoCredentials == ~HasValue(TOKEN_KEY) /\ ~(HasValue(USER_KEY) /\ HasValue(PASS_KEY))

Issued == req # NoRequest

\* the transport has been invoked for the current request
Sent == Issued /\ netCalls > 0

\* the caller holds the outcome of a failed call that carried a response
FailedWithResponse == pc = "done" /\ raw.kind = "response" /\ raw # OkResponse

\* message, as built from fragments, contains the text
Contains(message, text) == \E i \in 1..Len(message) : message[i] = text

\* inverse of the base64 encoding: 4 symbols -> up to 3 bytes
RECURSIVE Base64Decode(_)
Base64Decode(sym) ==
    IF Len(sym) < 4 THEN <<>>
    ELSE LET b1 == sym[1] * 4 + (sym[2] \div 16)
             b2 == (sym[2] % 16) * 16 + (sym[3] \div 4)
             b3 == (sym[3] % 4) * 64 + sym[4]
         IN IF sym[3] = PadSym THEN <<b1>>
            ELSE IF sym[4] = PadSym THEN <<b1, b2>>
            ELSE <<b1, b2, b3>> \o Base64Decode(SubSeq(sym, 5, Len(sym)))

C3_BasicOnEveryPath ==
    (Sent /\ ~HasValue(TOKEN_KEY) /\ HasValue(USER_KEY) /\ HasValue(PASS_KEY)) =>
        /\ hdr.scheme = "Basic"
        /\ Base64Decode(hdr.cred) = env[USER_KEY] \o <<Colon>> \o env[PASS_KEY]

\* C4 (as claimed): a failed call whose response status is 401, 403 or 404
\* reaches the caller as an error of kind AUTH_INVALID, FORBIDDEN or NOT_FOUND
\* respectively, with the original status, whatever normaliser and service.
KindOfStatus(status) ==
    CASE status = 401 -> AUTH_INVALID
      [] status = 403 -> FORBIDDEN
      [] status = 404 -> NOT_FOUND
      [] OTHER -> API_ERROR

C4_StatusDeterminesKind ==
    (FailedWithResponse /\ raw.status \in {401, 403, 404}) =>
        /\ result.cls = "McpError"
        /\ result.type = KindOfStatus(raw.status)
        /\ result.statusCode = raw.status

C6_NoResponseIsRequestError ==
    (pc = "done" /\ raw.kind = "failure") =>
        /\ result.cls = "McpError"
        /\ result.type = REQUEST_ERROR
        /\ result.statusCode = 500
        /\ result.cause = raw.error.cls

\* the message the server supplied in the body of an error response
SuppliedMessages(b) ==
    IF b.fmt # "json" THEN {} ELSE {b.errors0, b.message} \ {""}

\* C7 (as claimed): when the server answers get-project with 404 and an error
\* body, getProject rejects with an McpError NOT_FOUND, status 404, whose
\* message contains the message the server supplied in errors[0].message or in
\* the top-level message.
C7_NotFoundCarriesServerMessage ==
    (FailedWithResponse /\ raw.status = 404 /\ req.impl = "api"
     /\ req.svc = "convert" /\ SuppliedMessages(err.body) # {}) =>
        /\ result.cls = "McpError"
        /\ result.type = NOT_FOUND
        /\ result.statusCode = 404
        /\ \E m \in SuppliedMessages(err.body) : Contains(result.message, m)

\* C10 (as claimed): with the server URL not configured, the attempt to read
\* it fails with an error of kind CONFIG_ERROR before any pipeline stage runs.
C10_ConfigErrorBeforePipeline ==
    (Issued /\ ~HasValue(URL_KEY)) =>
        /\ stages = <<>>
        /\ pc = "done" => (result.cls = "McpError" /\ result.type = CONFIG_ERROR)

\* the members of a request object that carry the caller's params
ForwardedParams(request) ==
    [k \in DOMAIN request \ {"projectkey"} |-> request[k]]

NotLastPage(envelope) ==
    ~("isLastPage" \in DOMAIN envelope /\ envelope["isLastPage"] = TRUE)

\* C9 (as claimed): every consumer of a paging envelope reports more results
\* exactly when isLastPage is not true, also when isLastPage is absent, and
\* the controller and the tool handler agree on the same envelope.
C9_HasMoreIsNotLastPage ==
    /\ cliView.set => (cliView.reported /\ cliView.hasMore) = NotLastPage(cliView.envelope)
    /\ toolView.set => (toolView.reported /\ toolView.hasMore) = NotLastPage(toolView.envelope)
    /\ (cliView.set /\ toolView.set /\ cliView.envelope = toolView.envelope) =>
          (cliView.reported /\ cliView.hasMore) = (toolView.reported /\ toolView.hasMore)

\* the kept execution is an earlier one, and it had the same request, the same
\* configuration and the same answer of the server as the current one
KeptEarlier == journal.kept /\ journal.at < served
SameInputs ==
    /\ journal.req = req /\ journal.env = env
    /\ journal.raw = raw /\ journal.body = ResponseBody

HasStage(s) == \E n \in 1..Len(stages) : stages[n] = s

\* the header the auth stage of a pipeline computes from a configuration
StageHeader(impl, e) ==
    CASE impl = "client" -> clientAuthInterceptor(e, NoAuth, Undefined, Undefined)
      [] impl = "api" -> authMiddleware(e, NoAuth)
      [] OTHER -> addAuthHeader(e, NoAuth)

\* C20: with configuration changes between the requests, the Authorization
\* header of each request is the one computed from the configuration present
\* when its auth stage ran, not from values read for an earlier request or
\* when the client was constructed.
C20_HeaderFromCurrentConfig ==
    /\ (Issued /\ HasStage("auth")) => hdr = StageHeader(req.impl, env)
    /\ (journal.kept /\ journal.raw # NoRaw) =>
          journal.hdr = StageHeader(journal.req.impl, journal.env)

C20_Witness ==
    /\ pc = "done" /\ KeptEarlier /\ journal.raw # NoRaw
    /\ journal.req = req /\ journal.env # env
    /\ journal.hdr.scheme = "Basic" /\ hdr.scheme = "Bearer"

\* the body of the response of a failed call, and the message of the error
\* the transport raised for it
FailedBody == IF req.impl = "api" THEN err.body ELSE raw.error.body
TransportText == IF req.impl = "api" THEN "" ELSE MessageText(raw.error)

\* first non-empty of errors[0].message, the top-level message, the transport
\* error's message, the default literal
MessageByPriority(b, transportText) ==
    IF b.fmt = "json" /\ b.errors0 # "" THEN b.errors0
    ELSE IF b.fmt = "json" /\ b.message # "" THEN b.message
    ELSE IF transportText # "" THEN transportText
    ELSE NetworkErrorLiteral

\* C12 (as claimed): the message of the normalised error of a failed call that
\* carried a response is the first non-empty of errors[0].message of the body,
\* the top-level message of the body, the transport error's message, a default
\* literal; it is never empty.
C12_MessagePriority ==
    (FailedWithResponse /\ result.cls = "McpError") =>
        /\ result.message # <<>>
        /\ result.message = <<MessageByPriority(FailedBody, TransportText)>>

\* the transport outcome of the current request is unsuccessful
TransportUnsuccessful == Issued /\ raw # NoRaw /\ raw # OkResponse

\* C13 (as claimed): when the transport outcome is unsuccessful the transport
\* was invoked exactly once, the request does not complete as a success, and
\* the caller of the pipeline receives a normalised error (McpError), not a
\* raw transport or client error.
C13_OneNormalizedRejection ==
    TransportUnsuccessful =>
        /\ netCalls = 1
        /\ pc = "done" => (result # NoError /\ result.cls = "McpError")

\* the normalised error first constructed for the current request: by the
\* error interceptor, else by the catch block of the service
FirstNormalized ==
    IF err.cls = "McpError" THEN err
    ELSE IF result.cls = "McpError" THEN result ELSE NoError

\* the tool handler or the CLI command has dealt with the outcome of a
\* request whose transport outcome was unsuccessful
FailedThroughLayer == lpc = "returned" /\ pc = "done" /\ TransportUnsuccessful

\* C14 (as claimed): for a failed call one normalised error is constructed on
\* the whole path from the transport to the tool or CLI caller: the error
\* created at the normalisation boundary is the one the top layer reports,
\* kind and status unchanged, and no layer above replaces it with a new one.
C14_OneErrorAlongThePath ==
    (FailedThroughLayer /\ req.impl = "api") =>
        /\ FirstNormalized.cls = "McpError"
        /\ out.error = FirstNormalized

CredentialsConfigured ==
    HasValue(TOKEN_KEY) \/ (HasValue(USER_KEY) /\ HasValue(PASS_KEY))

\* C15 (as claimed): every network call of a service operation, the raw file
\* content retrieval of getFileContent included, has passed the auth stage
\* before the transport, carries an Authorization header when credentials are
\* configured, and passes error normalisation after an unsuccessful response.
C15_EveryCallThroughPipeline ==
    /\ Sent => (HasStage("auth") /\ (CredentialsConfigured => hdr # NoAuth))
    /\ (pc = "done" /\ Issued /\ raw.kind = "response" /\ raw # OkResponse) =>
          HasStage("normalize")

\* the one text item a tool handler returns for a failure with this message
ErrorItem(message) == <<(<<"Error: ">> \o message)>>

\* the handler returned normally, with one text item for the failure
ReturnedError(message) ==
    out.kind = "returned" /\ ~out.thrown /\ out.content = ErrorItem(message)

\* C16: whatever fails while a tool handler runs (its own validation, the
\* service or the pipeline, a thrown value that is not an Error), the handler
\* returns normally with one text item "Error: " followed by the error's
\* message, and no exception reaches the tool caller.
C16_ToolReturnsErrorText ==
    /\ (inv.via = "tool" /\ lpc = "returned" /\ toolValidation(inv) # NoError) =>
          ReturnedError(toolValidation(inv).message)
    /\ (inv.via = "tool" /\ lpc = "returned" /\ pc = "done" /\ result # NoError) =>
          ReturnedError(result.message)
    /\ \A t \in {"", "boom"} :
          LET r == formatErrorForMcpTool(ThrownValue(t))
          IN r.kind = "returned" /\ ~r.thrown /\ r.content = ErrorItem(Str(t))

C16_Witness ==
    /\ inv.via = "tool" /\ lpc = "returned" /\ pc = "done"
    /\ result.cls = "ApiClientError" /\ raw.status = 404
    /\ out.content = ErrorItem(result.message)

\* C17: when the controller call of a CLI command fails, the command prints
\* the one line "Error: <message>" on stderr, the process exits with code 1,
\* and neither content nor pagination is printed.
C17_CliPrintsErrorAndExits ==
    (inv.via = "cli" /\ lpc = "returned" /\ pc = "done" /\ result # NoError) =>
        /\ out.kind = "exited"
        /\ out.exitCode = 1
        /\ out.stderr = ErrorItem(controllerCatch(inv, result).message)
        /\ out.stdout = <<>>

C17_Witness ==
    /\ inv.via = "cli" /\ inv.op = "getProject" /\ lpc = "returned" /\ pc = "done"
    /\ result.type = NOT_FOUND
    /\ out.exitCode = 1 /\ out.stderr = <<(<<"Error: ", "Failed to get project ", "PROJ">>)>>

\* the invocation was answered by the calling layer's own validation: the
\* service was not called, no request was issued, and the error reported is a
\* VALIDATION_ERROR
RejectedByValidation ==
    /\ lpc = "returned"
    /\ pc = "idle" /\ ~Issued /\ netCalls = 0
    /\ out.error.cls = "McpError" /\ out.error.type = VALIDATION_ERROR

Invoked == inv.via # "none" /\ lpc # "idle"

\* C18 (as claimed): a paged operation invoked through a tool handler or a
\* CLI command with limit outside [1,100] or start < 0 fails with a
\* VALIDATION_ERROR, and neither the service nor the pipeline is invoked.
C18_PaginationBoundsChecked ==
    (Invoked /\ inv.op \in PagedOps
     /\ (LimitOutOfRange(inv.params) \/ StartOutOfRange(inv.params))) =>
        RejectedByValidation

\* C19 (as claimed): an operation of the repository service called with an
\* empty required identifier (projectKey, repoSlug, filePath) fails before any
\* API or network call, with a normalised error of kind VALIDATION_ERROR.
C19_EmptyIdentifierIsValidationError ==
    (Invoked /\ inv.op \in RepositoryOps /\ EmptyIdentifier(inv)) =>
        /\ ~Issued /\ netCalls = 0
        /\ lpc = "returned" =>
              (out.error.cls = "McpError" /\ out.error.type = VALIDATION_ERROR)

\* the environment with ATLASSIAN_BITBUCKET_APP_PASSWORD set to ap
WithAppPassword(ap) ==
    [k \in DOMAIN env \cup {APP_PASS_KEY} |-> IF k = APP_PASS_KEY THEN ap ELSE env[k]]

\* the credentials object holds one scheme, and holds it whole
OneCompleteScheme(c) ==
    /\ ("bitbucketUsername" \in DOMAIN c) = ("bitbucketAppPassword" \in DOMAIN c)
    /\ ("bitbucketAccessToken" \in DOMAIN c) # ("bitbucketUsername" \in DOMAIN c)
    /\ \A k \in DOMAIN c : c[k] # <<>>

\* C21: credential resolution applies at most one scheme, and a complete one.
\* A Basic header is built only when username and password are both
\* non-empty and no token is configured, and it encodes exactly that pair; a
\* Bearer header is built only from a non-empty token; the header has one
\* scheme; getTestCredentials returns null, the token alone, or the whole pair.
C21_OneCompleteScheme ==
    /\ hdr.scheme \in {"none", "Bearer", "Basic"}
    /\ hdr.scheme = "Basic" =>
          /\ HasValue(USER_KEY) /\ HasValue(PASS_KEY) /\ ~HasValue(TOKEN_KEY)
          /\ Base64Decode(hdr.cred) = env[USER_KEY] \o <<Colon>> \o env[PASS_KEY]
    /\ hdr.scheme = "Bearer" => (HasValue(TOKEN_KEY) /\ hdr.cred = env[TOKEN_KEY])
    /\ \A ap \in ValuesOf(PASS_KEY) :
          LET c == getTestCredentials(WithAppPassword(ap))
          IN c # Null => OneCompleteScheme(c)

C21_Witness ==
    /\ Sent /\ req.impl = "client" /\ hdr.scheme = "Basic"
    /\ Base64Decode(hdr.cred) = <<97, 98, Colon, 112, 119>>
    /\ getTestCredentials(WithAppPassword(<<112>>)) # Null
    /\ "bitbucketAppPassword" \in DOMAIN getTestCredentials(WithAppPassword(<<112>>))

\* the request in slot i is in progress
InProgress(i) == par[i].pc \notin {"idle", "done"}

\* C22: with the configuration unchanged, each of the requests in progress at
\* once ends with the header, the transport count and the result that the
\* same request with the same response has when it is issued alone; a request
\* in progress can always take its next step, whatever the others are doing.
C22_ConcurrentRequestsIndependent ==
    /\ (ref # 0 /\ pc = "done") =>
          /\ hdr = Chosen.hdr
          /\ netCalls = Chosen.netCalls
          /\ raw = Chosen.raw
          /\ result = Chosen.result
    /\ \A i \in Slots : InProgress(i) => ENABLED ParStep(i)

\* the request issued first settled last, the outcomes differ, and the first
\* one has been repeated alone
C22_Witness ==
    /\ ref = 1 /\ pc = "done"
    /\ par[1].started = 1 /\ par[2].started = 2
    /\ par[1].finished = 2 /\ par[2].finished = 1
    /\ par[1].req.impl = "client" /\ par[2].req.impl = "api"
    /\ par[1].result.type = NOT_FOUND /\ par[2].raw = OkResponse
    /\ par[1].hdr # NoAuth

\* the sources that define the key when load() starts
DefinedIn(key) ==
    {"process" : x \in {1} \cap (IF key \in DOMAIN env THEN {1} ELSE {})}
    \cup {src \in {"dotenv", "global"} : key \in DOMAIN files[src].vars}
    \cup {src \in {"dotenvTest"} : IsTest(env) /\ key \in DOMAIN files[src].vars}

\* the value of the source the documented order puts first
ClaimedValue(key) ==
    IF "process" \in DefinedIn(key) THEN env[key]
    ELSE IF "dotenvTest" \in DefinedIn(key) THEN FileValue("dotenvTest")
    ELSE IF "dotenv" \in DefinedIn(key) THEN FileValue("dotenv")
    ELSE FileValue("global")

\* a step of load() that finds the configuration not loaded yet
FirstLoad == loads' = loads + 1 /\ ~configLoaded

\* C23 (as claimed): when load() has read the sources, config.get(key) of a
\* key defined in more than one source is the value of the source that comes
\* first in the order process environment, .env.test (NODE_ENV=test), .env,
\* global config file.
C23_HighestPrioritySourceWins ==
    [][FirstLoad =>
         \A key \in LoadKeys :
            Cardinality(DefinedIn(key)) > 1 =>
                ConfigGet(env', key) = ClaimedValue(key)]_vars

\* a step of load() that finds the configuration loaded
RepeatedLoad == loads' = loads + 1 /\ configLoaded

\* C30: a load() that finds the configuration loaded (an earlier load(), no
\* reset() since) reads no source and leaves process.env as it is; reset()
\* clears the flag and leaves only NODE_ENV, PATH, PWD, HOME and SHELL in
\* process.env; a load() that finds the flag cleared reads the sources again.
C30_LoadOnceUntilReset ==
    [][/\ RepeatedLoad => (env' = env /\ reads' = reads /\ configLoaded')
       /\ ConfigReset => (DOMAIN env' \subseteq nodeEnvVars /\ ~configLoaded')
       /\ FirstLoad => (reads' = reads + SourcesRead(env') /\ configLoaded')]_vars

\* load(), load() again, reset(), load(): two of the three read the sources
C30_Witness ==
    /\ loads = 3 /\ reads = 4 /\ ~IsTest(env)
    /\ configLoaded /\ TOKEN_KEY \in DOMAIN env /\ env[TOKEN_KEY] = FileValue("dotenv")

\* decodeURIComponent on what encodeURIComponent produced
HexValue(c) == IF c < 58 THEN c - 48 ELSE c - 55
RECURSIVE PercentDecode(_)
PercentDecode(t) ==
    IF t = <<>> THEN <<>>
    ELSE IF t[1] = Percent /\ Len(t) >= 3
         THEN <<HexValue(t[2]) * 16 + HexValue(t[3])>> \o PercentDecode(SubSeq(t, 4, Len(t)))
         ELSE <<t[1]>> \o PercentDecode(Tail(t))

Slashes(t) == Cardinality({j \in 1..Len(t) : t[j] = Slash})

\* the request is for the raw-content resource of the file, the slashes of
\* the path as they were, at=<ref> present exactly when a ref was given
RawContentRequest(c) ==
    /\ c.request.resource = "raw"
    /\ PercentDecode(c.request.projectKey) = c.args.projectKey
    /\ PercentDecode(c.request.repoSlug) = c.args.repoSlug
    /\ PercentDecode(c.request.path) = c.args.filePath
    /\ Slashes(c.request.path) = Slashes(c.args.filePath)
    /\ ("at" \in DOMAIN c.request.query) = (c.args.atRef # <<>>)
    /\ "at" \in DOMAIN c.request.query =>
          PercentDecode(c.request.query["at"]) = c.args.atRef

\* C24 (as claimed): getFileContent requests the raw-content resource
\* .../projects/{key}/repos/{slug}/raw/{path} with the slashes of the path
\* preserved and at=<ref> present exactly when a ref is supplied, and on a
\* successful response returns the body text unchanged.
C24_RawContentContract ==
    /\ fc.pc \in {"awaiting", "done"} /\ fc.error = NoError => RawContentRequest(fc)
    /\ fc.pc = "done" /\ fc.error = NoError => fc.content = fc.body.text

\* the request is in the transport stage: axios or fetch has been called and
\* has not settled
InTransport == pc \in {"transport", "fetch"}

\* the transport stage was left by the transport settling: it was invoked
\* once and left a response or a failure
LeftBySettling ==
    /\ netCalls' = netCalls + 1
    /\ raw'.kind \in {"response", "failure"}
    /\ req' = req
    /\ pc' \in {"logresp", "service", "done"}

\* C25: if the transport settles, every request that was issued reaches the
\* caller as a result or an error; a request in the transport stage leaves it
\* only when the transport resolves or rejects.
C25_RequestsSettle ==
    /\ \A n \in 0..MaxRequests :
          (Issued /\ served = n) ~> (pc = "done" /\ served = n)
    /\ [][(InTransport /\ pc' # pc) => LeftBySettling]_vars

C25_Witness ==
    /\ pc = "done" /\ req.impl = "client" /\ netCalls = 1
    /\ raw.kind = "failure" /\ result.type = REQUEST_ERROR

\* The state of the current request in the terms of the state machine: Idle
\* until its auth stage is due, AuthResolving when the auth stage is due,
\* AuthInjected when the auth stage has run and the transport has not been
\* invoked, InFlight from then until the caller has the outcome.
AuthDone == \E j \in 1..Len(stages) : stages[j] = "auth"
RequestState ==
    CASE pc = "done" -> IF result = NoError THEN "Succeeded" ELSE "Failed"
      [] pc = "idle" -> "Idle"
      [] pc # "done" /\ pc # "idle" /\ ~AuthDone ->
            IF pc = "auth" THEN "AuthResolving" ELSE "Idle"
      [] OTHER -> IF netCalls = 0 THEN "AuthInjected" ELSE "InFlight"

Transitions ==
    {<<"Idle", "AuthResolving">>, <<"AuthResolving", "AuthInjected">>,
     <<"AuthInjected", "InFlight">>, <<"InFlight", "Succeeded">>,
     <<"InFlight", "Failed">>, <<"AuthResolving", "Failed">>}

\* C26 (as claimed): the state of a request moves only along Idle ->
\* AuthResolving -> AuthInjected -> InFlight -> Succeeded or Failed and
\* AuthResolving -> Failed; Succeeded and Failed are left only when the
\* request is over; a failed request carries a normalised error; a request
\* that failed without its auth stage completing never reached the transport.
C26_RequestStateMachine ==
    /\ [][(served' = served /\ RequestState' # RequestState) =>
             <<RequestState, RequestState'>> \in Transitions]_vars
    /\ [](RequestState = "Failed" => result.cls = "McpError")
    /\ [](RequestState = "Failed" /\ ~AuthDone => netCalls = 0)

\* the claimed order of the stages of one request
StageOrder == <<"auth", "logreq", "transport", "logresp", "normalize">>
Rank(s) == CHOOSE i \in 1..Len(StageOrder) : StageOrder[i] = s
RanBefore(s, j) == \E k \in 1..(j - 1) : stages[k] = s

\* C27 (as claimed): the stages of every request run in the order auth
\* injection, request logging, transport, response logging, error
\* normalisation: request logging never runs before the auth stage has set the
\* header, and error normalisation never runs before response logging has
\* seen the outcome.
C27_FixedStageOrder ==
    /\ \A j \in 1..(Len(stages) - 1) : Rank(stages[j]) < Rank(stages[j + 1])
    /\ \A j \in 1..Len(stages) :
          /\ stages[j] = "logreq" => RanBefore("auth", j)
          /\ stages[j] = "normalize" => RanBefore("logresp", j)

\* ------------------------------------------ the request through the stages
\* a record written to the log: level, the fixed text, and the values that
\* were interpolated into it
Debug(text) == [level |-> "debug", text |-> text, values |-> <<>>]
Warn(text) == [level |-> "warn", text |-> text, values |-> <<>>]

\* requestConfig.headers.Authorization = value
setAuthorization(config, value) ==
    LET hs == config.headers
    IN [config EXCEPT !.headers =
           [k \in DOMAIN hs \cup {"Authorization"} |->
               IF k = "Authorization" THEN value ELSE hs[k]]]

\* the mutant writes the token it has added to the log
addAuthHeaderLogsToken(e, config) ==
    LET token == ConfigGet(e, TOKEN_KEY)
        username == ConfigGet(e, USER_KEY)
        password == ConfigGet(e, PASS_KEY)
        attempt == Debug(<<"Bearer token not found, attempting Basic auth.">>)
    IN IF Truthy(token)
       THEN IF config.hasHeaders
            THEN [config |-> setAuthorization(config, Bearer(token)),
                  log |-> <<[Debug(<<"Added Bearer token authorization header.">>)
                               EXCEPT !.values = <<token>>]>>]
            ELSE [config |-> config, log |-> <<>>]
       ELSE IF Truthy(username) /\ Truthy(password)
            THEN IF config.hasHeaders
                 THEN [config |-> setAuthorization(config,
                                     Basic(Base64(username \o <<Colon>> \o password))),
                       log |-> <<attempt,
                                 Debug(<<"Added Basic auth header using username/password.">>)>>]
                 ELSE [config |-> config, log |-> <<attempt>>]
            ELSE [config |-> config,
                  log |-> <<attempt,
                            Warn(<<"No suitable authentication credentials (Bearer token or Basic auth username/password) were found in config.">>)>>]

\* addAuthHeader as a whole: the request it returns and the records it logs
addAuthHeaderOn(e, config) ==
    LET token == ConfigGet(e, TOKEN_KEY)
        username == ConfigGet(e, USER_KEY)
        password == ConfigGet(e, PASS_KEY)
        attempt == Debug(<<"Bearer token not found, attempting Basic auth.">>)
    IN IF Truthy(token)
       THEN IF config.hasHeaders
            THEN [config |-> setAuthorization(config, Bearer(token)),
                  log |-> <<Debug(<<"Added Bearer token authorization header.">>)>>]
            ELSE [config |-> config, log |-> <<>>]
       ELSE IF Truthy(username) /\ Truthy(password)
            THEN IF config.hasHeaders
                 THEN [config |-> setAuthorization(config,
                                     Basic(Base64(username \o <<Colon>> \o password))),
                       log |-> <<attempt,
                                 Debug(<<"Added Basic auth header using username/password.">>)>>]
                 ELSE [config |-> config, log |-> <<attempt>>]
            ELSE [config |-> config,
                  log |-> <<attempt,
                            Warn(<<"No suitable authentication credentials (Bearer token or Basic auth username/password) were found in config.">>)>>]

\* the auth interceptor of BitbucketClient as a whole; the request carries no
\* member bitbucket, so the credentials come from the configuration
clientAuthInterceptorOn(e, config) ==
    LET token == ConfigGet(e, TOKEN_KEY)
        username == ConfigGet(e, USER_KEY)
        password == ConfigGet(e, PASS_KEY)
        attempt == Debug(<<"Bearer token not found, attempting Basic auth.">>)
    IN IF Truthy(token)
       THEN IF config.hasHeaders
            THEN [config |-> setAuthorization(config, Bearer(token)),
                  log |-> <<Debug(<<"Added Bearer token authorization header.">>)>>]
            ELSE [config |-> config, log |-> <<>>]
       ELSE IF Truthy(username) /\ Truthy(password)
            THEN IF config.hasHeaders
                 THEN [config |-> setAuthorization(config,
                                     Basic(Base64(username \o <<Colon>> \o password))),
                       log |-> <<attempt,
                                 Debug(<<"Added Basic auth header using username/password.">>)>>]
                 ELSE [config |-> config, log |-> <<attempt>>]
            ELSE [config |-> config,
                  log |-> <<attempt,
                            Warn(<<"No suitable authentication credentials (Bearer token or Basic auth username/password) were found in config.">>)>>]

\* the mutant starts from an empty headers object whenever it adds the header
authMiddlewareFreshHeaders(e, config) ==
    LET token == IF TOKEN_KEY \in DOMAIN e /\ Truthy(e[TOKEN_KEY])
                 THEN e[TOKEN_KEY] ELSE ConfigGet(e, TOKEN_KEY)
    IN IF Truthy(token)
       THEN [config |-> setAuthorization(
                            [config EXCEPT !.hasHeaders = TRUE, !.headers = NoHeaders],
                            Bearer(token)),
             log |-> <<Debug(<<"Added Bearer token authorization header">>)>>]
       ELSE [config |-> config, log |-> <<Warn(<<"No authentication token found">>)>>]

\* authMiddleware.pre as a whole: context.init.headers is created when it is
\* missing
authMiddlewareOn(e, config) ==
    LET token == IF TOKEN_KEY \in DOMAIN e /\ Truthy(e[TOKEN_KEY])
                 THEN e[TOKEN_KEY] ELSE ConfigGet(e, TOKEN_KEY)
        init == IF config.hasHeaders THEN config
                ELSE [config EXCEPT !.hasHeaders = TRUE, !.headers = NoHeaders]
    IN IF Truthy(token)
       THEN [config |-> setAuthorization(init, Bearer(token)),
             log |-> <<Debug(<<"Added Bearer token authorization header">>)>>]
       ELSE [config |-> config, log |-> <<Warn(<<"No authentication token found">>)>>]

\* the auth stage of the pipeline as a whole
authStageOn(impl, e, config) ==
    CASE impl = "client" -> clientAuthInterceptorOn(e, config)
      [] impl = "api" -> authMiddlewareOn(e, config)
      [] OTHER -> addAuthHeaderOn(e, config)

\* logRequest, the logging interceptor of BitbucketClient and
\* loggingMiddleware.pre: method and URL are logged, the request is returned
logRequestOn(impl, config) ==
    [config |-> config,
     log |-> <<Debug(IF impl = "api" THEN <<"=> ", config.method, " ", config.url>>
                     ELSE <<config.method, " ", config.url>>)>>]

\* requests as callers hand them to the pipeline
StageImpls == {"client", "handlers", "api"}
CallerAuthorization == Basic(<<99>>)
CallerHeaders ==
    {NoHeaders,
     [k \in {"Accept"} |-> "application/json"],
     [k \in {"Accept", "X-Request-Id"} |->
         IF k = "Accept" THEN "application/json" ELSE "r1"]}
StageConfigs ==
    {[method |-> m, url |-> "/rest/api/latest/projects",
      body |-> IF m = "POST" THEN "{\"name\":\"x\"}" ELSE "",
      hasHeaders |-> TRUE, headers |-> h] :
        m \in {"GET", "POST"}, h \in CallerHeaders}
    \cup {setAuthorization(
             [method |-> "GET", url |-> "/rest/api/latest/projects", body |-> "",
              hasHeaders |-> TRUE, headers |-> NoHeaders], CallerAuthorization)}
    \cup {[method |-> "GET", url |-> "/rest/api/latest/projects", body |-> "",
           hasHeaders |-> FALSE, headers |-> NoHeaders]}

\* the configuration with two values for every credential
CredentialKeys == {TOKEN_KEY, USER_KEY, PASS_KEY}
StageValuesOf(key) ==
    CASE key = URL_KEY   -> {<<104>>}
      [] key = TOKEN_KEY -> {<<>>, <<116, 107>>, <<116, 50>>}   \* "", "tk", "t2"
      [] key = USER_KEY  -> {<<117>>, <<97, 98>>}               \* "u", "ab"
      [] key = PASS_KEY  -> {<<>>, <<112>>, <<112, 119>>}       \* "", "p", "pw"
StageEnvs ==
    UNION {{e \in [ks -> UNION {StageValuesOf(k) : k \in ConfigKeys}] :
               \A k \in ks : e[k] \in StageValuesOf(k)} :
           ks \in SUBSET ConfigKeys}

\* a configuration that differs from e in the values of credentials only:
\* the same keys are set, and set to something, and the rest is equal
DiffersInCredentialValuesOnly(e, e2) ==
    /\ DOMAIN e2 = DOMAIN e
    /\ \A k \in DOMAIN e :
          /\ Truthy(e2[k]) = Truthy(e[k])
          /\ k \notin CredentialKeys => e2[k] = e[k]

\* a caller hands a request to the pipeline; a second run of the same request
\* under the configuration e2 is followed along with it
StageStart(impl, config, e2) ==
    /\ sr.pos = "idle"
    /\ DiffersInCredentialValuesOnly(env, e2)
    /\ sr' = [impl |-> impl, pos |-> FirstStage(impl), given |-> config,
              config |-> config, log |-> <<>>,
              twinEnv |-> e2, twinConfig |-> config, twinLog |-> <<>>]
    /\ UNCHANGED <<pipeVars, pageVars, callVars, journal, parVars, loaderVars, configLoaded, fc>>

\* the auth stage runs on the request
StageAuth ==
    /\ sr.pos = "auth"
    /\ LET run == authStageOn(sr.impl, env, sr.config)
           twin == authStageOn(sr.impl, sr.twinEnv, sr.twinConfig)
       IN sr' = [sr EXCEPT !.pos = NextStage(sr.impl, "auth"),
                           !.config = run.config,
                           !.log = @ \o run.log,
                           !.twinConfig = twin.config,
                           !.twinLog = @ \o twin.log]
    /\ UNCHANGED <<pipeVars, pageVars, callVars, journal, parVars, loaderVars, configLoaded, fc>>

\* the request-logging stage runs on the request
StageLogRequest ==
    /\ sr.pos = "logreq"
    /\ LET run == logRequestOn(sr.impl, sr.config)
           twin == logRequestOn(sr.impl, sr.twinConfig)
       IN sr' = [sr EXCEPT !.pos = NextStage(sr.impl, "logreq"),
                           !.config = run.config,
                           !.log = @ \o run.log,
                           !.twinConfig = twin.config,
                           !.twinLog = @ \o twin.log]
    /\ UNCHANGED <<pipeVars, pageVars, callVars, journal, parVars, loaderVars, configLoaded, fc>>

\* the request is handed to the transport and its objects are dropped
StageOver ==
    /\ sr.pos = "transport"
    /\ sr' = NoStageRun
    /\ UNCHANGED <<pipeVars, pageVars, callVars, journal, parVars, loaderVars, configLoaded, fc>>

StageNext ==
    \/ \E impl \in StageImpls : \E config \in StageConfigs : \E e2 \in StageEnvs :
          StageStart(impl, config, e2)
    \/ StageAuth
    \/ StageLogRequest
    \/ StageOver

StageSpecInit ==
    /\ env \in StageEnvs
    /\ instance = FALSE
    /\ pc = "idle"
    /\ req = NoRequest
    /\ hdr = NoAuth
    /\ netCalls = 0
    /\ stages = <<>>
    /\ raw = NoRaw
    /\ err = NoError
    /\ result = NoError
    /\ served = 0
    /\ PageInit
    /\ CallInit
    /\ MoreInit

\* requests on their way from the caller to the transport
SpecStage == StageSpecInit /\ [][StageNext]_vars

\* the headers of a request other than Authorization
OtherHeaders(config) ==
    [k \in DOMAIN config.headers \ {"Authorization"} |-> config.headers[k]]
SameButAuthorization(config, given) ==
    /\ config.method = given.method
    /\ config.url = given.url
    /\ config.body = given.body
    /\ OtherHeaders(config) = OtherHeaders(given)

\* C28: on its way through the auth and request-logging stages the request
\* keeps the method, URL, body and every header other than Authorization that
\* the caller gave it, and the request-logging stage returns the request as it
\* received it.
C28_StagesKeepTheRequest ==
    /\ [](sr.pos # "idle" => SameButAuthorization(sr.config, sr.given))
    /\ [][sr.pos = "logreq" => sr'.config = sr.config]_vars

\* a request with two headers of the caller has passed both stages and an
\* Authorization header was added to it
C28_Witness ==
    /\ sr.pos = "transport"
    /\ DOMAIN sr.given.headers = {"Accept", "X-Request-Id"}
    /\ DOMAIN sr.config.headers = {"Accept", "X-Request-Id", "Authorization"}

\* the credential values of a run: token, password, and the value of the
\* Authorization header that was set
SecretsOf(e, config) ==
    ({ConfigGet(e, TOKEN_KEY), ConfigGet(e, PASS_KEY)}
     \cup (IF "Authorization" \in DOMAIN config.headers
           THEN {config.headers["Authorization"].cred} ELSE {}))
    \ {Undefined}
Added(before, after) == SubSeq(after, Len(before) + 1, Len(after))

\* C29: the records the auth stage writes to the log hold no token, password
\* or Authorization value, and they are the same records for a second run
\* whose configuration differs in the values of the credentials only.
C29_AuthStageLogsPresenceOnly ==
    [][sr.pos = "auth" =>
          /\ Added(sr.log, sr'.log) = Added(sr.twinLog, sr'.twinLog)
          /\ \A j \in 1..Len(sr'.log) : \A n \in 1..Len(sr'.log[j].values) :
                sr'.log[j].values[n] \notin SecretsOf(env, sr'.config)]_vars

\* the auth stage has set different Authorization headers in two runs whose
\* tokens differ, and has logged in both
C29_Witness ==
    /\ sr.pos # "idle"
    /\ TOKEN_KEY \in DOMAIN env
    /\ sr.twinEnv[TOKEN_KEY] # env[TOKEN_KEY]
    /\ sr.config # sr.twinConfig
    /\ Len(sr.log) > 0
====
